---- MODULE Spec2Model ----
(***************************************************************************)
(* A model of opencode-sync: the configuration merge engine (merge.ts),    *)
(* the bundle builder and restorer (bundle.ts), and the batch sync command *)
(* (cli.ts / github.ts).                                                   *)
(*                                                                         *)
(* The module holds three specifications over one set of variables:        *)
(*   SpecMerge  - the pure functions of merge.ts applied to bounded inputs *)
(*   SpecBundle - createBundle / restoreBundle over a modelled filesystem  *)
(*   SpecSync   - handleSync over a list of targets and the gh transport   *)
(* Each specification leaves the variables of the others unchanged.        *)
(***************************************************************************)
EXTENDS Integers, Sequences, FiniteSets, TLC

VARIABLES
    mcall,      \* merge engine: the call under evaluation (function name and arguments)
    mret,       \* merge engine: its returned value, or Pending before the call returns
    fs,         \* the filesystem: [files: path -> content, dirs: set of paths]
    now,        \* Date.now()
    resolved,   \* the ResolvedTarget handed to createBundle
    cb,         \* createBundle's run: position, staging directory, collected files, manifest
    payload,    \* the base64 text: createBundle's result, restoreBundle's input
    rs,         \* restoreBundle's run: position, scratch directory, manifest, outcome
    sy,         \* the sync command's run: arguments, targets, position, tally, exit status
    runs        \* concurrent processes: each one's run of createBundle or restoreBundle

mergeVars == <<mcall, mret>>
bundleVars == <<fs, now, resolved, cb, payload, rs>>
syncVars == <<sy>>
scratchVars == <<runs>>
vars == <<mcall, mret, fs, now, resolved, cb, payload, rs, sy, runs>>

(***************************************************************************)
(* JSON values (types.ts JsonValue). Every value is a record with a tag t  *)
(* and a payload v; an object's payload is a function from keys to values, *)
(* an array's payload is a sequence. Undefined is JavaScript's undefined   *)
(* (a missing property or an unset optional field).                        *)
(***************************************************************************)
JNull == [t |-> "null", v |-> 0]
Undefined == [t |-> "undef", v |-> 0]
JNum(n) == [t |-> "num", v |-> n]
JStr(s) == [t |-> "str", v |-> s]
JBool(b) == [t |-> "bool", v |-> b]
JArr(s) == [t |-> "arr", v |-> s]
JObj(f) == [t |-> "obj", v |-> f]
EmptyObj == <<>>

\* typeof x === "object" && x !== null && !Array.isArray(x)
IsPlainObject(x) == x.t = "obj"

\* x ?? y
Nullish(x) == x.t \in {"null", "undef"}

\* JavaScript truthiness of a JSON value
Truthy(x) ==
    CASE x.t \in {"null", "undef"} -> FALSE
      [] x.t = "bool" -> x.v
      [] x.t = "num" -> x.v # 0
      [] x.t = "str" -> x.v # ""
      [] OTHER -> TRUE

\* obj[key] on an object body
Get(f, k) == IF k \in DOMAIN f THEN f[k] ELSE Undefined

\* { ...x }: the own enumerable properties of x as an object body
\* (a number, a boolean, null and undefined spread to nothing)
Spread(x) == IF x.t = "obj" THEN x.v ELSE EmptyObj

\* result[key] = value on an object body
SetKey(f, k, val) == [j \in DOMAIN f \cup {k} |-> IF j = k THEN val ELSE f[j]]

(***************************************************************************)
(* merge.ts: deepMerge                                                     *)
(***************************************************************************)
\* mutant of deepMerge: one level only, { ...target, ...source }
deepMergeShallow(target, source) ==
    [key \in DOMAIN target \cup DOMAIN source |->
        IF key \in DOMAIN source THEN source[key] ELSE target[key]]

RECURSIVE deepMerge(_, _)
deepMerge(target, source) ==
    [key \in DOMAIN target \cup DOMAIN source |->
        IF key \in DOMAIN source
        THEN IF /\ IsPlainObject(source[key])
                /\ key \in DOMAIN target
                /\ IsPlainObject(target[key])
             THEN JObj(deepMerge(target[key].v, source[key].v))
             ELSE source[key]
        ELSE target[key]]

(***************************************************************************)
(* merge.ts: mergePlugins. A plugin string is a sequence of characters.    *)
(***************************************************************************)
\* plugin.split("@")[0]: the text before the first "@" (all of it without one)
getBaseName(plugin) ==
    LET ats == {i \in 1..Len(plugin) : plugin[i] = "@"}
    IN  IF ats = {} THEN plugin
        ELSE SubSeq(plugin, 1, (CHOOSE i \in ats : \A j \in ats : i <= j) - 1)

\* result.findIndex(p => getBaseName(p) === baseName), 0 for JavaScript's -1
findIndex(result, baseName) ==
    LET hits == {i \in 1..Len(result) : getBaseName(result[i]) = baseName}
    IN  IF hits = {} THEN 0 ELSE CHOOSE i \in hits : \A j \in hits : i <= j

RECURSIVE mergePluginsLoop(_, _, _)
mergePluginsLoop(result, toAdd, n) ==
    IF n > Len(toAdd) THEN result
    ELSE LET plugin == toAdd[n]
             existingIndex == findIndex(result, getBaseName(plugin))
         IN  IF existingIndex >= 1
             THEN mergePluginsLoop([result EXCEPT ![existingIndex] = plugin], toAdd, n + 1)
             ELSE mergePluginsLoop(Append(result, plugin), toAdd, n + 1)

mergePlugins(existing, toAdd) == mergePluginsLoop(existing, toAdd, 1)

\* an entry of a plugin array that is not a string (the cast to string[] is
\* unchecked); no plugin string holds the empty character
NonString == <<"">>

\* the outcome of a call that ends in a TypeError
TypeErrorThrown == [t |-> "throw", v |-> 0]

\* whether findIndex's callback reaches an entry that is not a string, on which
\* plugin.split is not a function: every entry up to the first hit is visited
findIndexThrows(result, baseName) ==
    LET existingIndex == findIndex(result, baseName)
        visited == IF existingIndex = 0 THEN 1..Len(result) ELSE 1..existingIndex
    IN  \E i \in visited : result[i] = NonString

RECURSIVE mergePluginsThrowsLoop(_, _, _)
mergePluginsThrowsLoop(result, toAdd, n) ==
    IF n > Len(toAdd) THEN FALSE
    ELSE LET plugin == toAdd[n]
             existingIndex == findIndex(result, getBaseName(plugin))
         IN  \/ findIndexThrows(result, getBaseName(plugin))
             \/ IF existingIndex >= 1
                THEN mergePluginsThrowsLoop([result EXCEPT ![existingIndex] = plugin],
                                            toAdd, n + 1)
                ELSE mergePluginsThrowsLoop(Append(result, plugin), toAdd, n + 1)

\* whether mergePlugins(existing, toAdd) throws
mergePluginsThrows(existing, toAdd) == mergePluginsThrowsLoop(existing, toAdd, 1)

(***************************************************************************)
(* merge.ts: buildMergedConfig. sourceConfig and targetConfig are JSON     *)
(* values (targetConfig may be JNull); syncSpec is a ConfigSync record     *)
(* whose optional fields are Undefined when unset.                         *)
(***************************************************************************)
\* x[key] for a JSON value x that may not be an object
Prop(x, k) == IF x.t = "obj" THEN Get(x.v, k) ELSE Undefined

\* x ?? {}
OrEmpty(x) == IF Nullish(x) THEN JObj(EmptyObj) ELSE x

\* the "Merge plugins" step
mergePluginStep(result, syncSpec) ==
    IF syncSpec.plugins.t = "arr" /\ Len(syncSpec.plugins.v) > 0
    THEN LET existingPlugins ==
                 IF Get(result, "plugin").t = "arr" THEN Get(result, "plugin").v ELSE <<>>
         IN  SetKey(result, "plugin", JArr(mergePlugins(existingPlugins, syncSpec.plugins.v)))
    ELSE result

\* mutant of mergeProviderKeys: the destination and source blocks are merged first
mergeProviderKeysLeftNested(existingProvider, sourceProvider, providerSpec) ==
    JObj(deepMerge(deepMerge(Spread(existingProvider), Spread(sourceProvider)),
                   providerSpec.v))

\* the "Merge specific keys" branch: the block written for a provider whose spec is an object
mergeProviderKeys(existingProvider, sourceProvider, providerSpec) ==
    JObj(deepMerge(Spread(existingProvider),
                   deepMerge(Spread(sourceProvider), providerSpec.v)))

\* mutant of copyProviderBlock: the source block is merged onto the destination's
copyProviderBlockOntoExisting(existingProvider, sourceProvider) ==
    IF IsPlainObject(sourceProvider)
    THEN JObj(deepMerge(Spread(existingProvider), sourceProvider.v))
    ELSE sourceProvider

\* the "Sync entire provider block from source" branch: the block written for a
\* provider whose spec is true and whose source block is truthy
copyProviderBlock(existingProvider, sourceProvider) == sourceProvider

\* mutant of mergeProviderStep: the whole provider object of the source is written
mergeProviderStepWholeSource(result, sourceConfig, syncSpec) ==
    IF Truthy(syncSpec.providers)
    THEN SetKey(result, "provider", OrEmpty(Prop(sourceConfig, "provider")))
    ELSE result

\* whether the "Merge plugins" step throws
mergePluginStepThrows(result, syncSpec) ==
    /\ syncSpec.plugins.t = "arr" /\ Len(syncSpec.plugins.v) > 0
    /\ Get(result, "plugin").t = "arr"
    /\ mergePluginsThrows(Get(result, "plugin").v, syncSpec.plugins.v)

\* the "Merge providers" step
mergeProviderStep(result, sourceConfig, syncSpec) ==
    IF Truthy(syncSpec.providers)
    THEN LET existingProviders == OrEmpty(Get(result, "provider"))
             sourceProviders == OrEmpty(Prop(sourceConfig, "provider"))
             specs == syncSpec.providers.v
             copied == {n \in DOMAIN specs :
                          specs[n] = JBool(TRUE) /\ Truthy(Prop(sourceProviders, n))}
             merged == {n \in DOMAIN specs : IsPlainObject(specs[n])}
             mergedProviders ==
                 [n \in DOMAIN Spread(existingProviders) \cup copied \cup merged |->
                     IF n \in copied
                     THEN copyProviderBlock(Prop(existingProviders, n),
                                            Prop(sourceProviders, n))
                     ELSE IF n \in merged
                     THEN mergeProviderKeys(OrEmpty(Prop(existingProviders, n)),
                                            OrEmpty(Prop(sourceProviders, n)),
                                            specs[n])
                     ELSE Spread(existingProviders)[n]]
         IN  SetKey(result, "provider", JObj(mergedProviders))
    ELSE result

\* the "Set model" step
setModelStep(result, syncSpec) ==
    IF Truthy(syncSpec.model) THEN SetKey(result, "model", syncSpec.model) ELSE result

\* mutant of mergeExtraStep: the accumulated result is merged onto extra
mergeExtraStepUnderResult(result, syncSpec) ==
    IF Truthy(syncSpec.extra) THEN deepMerge(Spread(syncSpec.extra), result) ELSE result

\* the "Merge extra config" step
mergeExtraStep(result, syncSpec) ==
    IF Truthy(syncSpec.extra) THEN deepMerge(result, Spread(syncSpec.extra)) ELSE result

\* mutant of buildMergedConfig: every mode takes the merge path
buildMergedConfigAlwaysMerging(sourceConfig, targetConfig, syncSpec) ==
    LET base == Spread(OrEmpty(targetConfig))
        r1 == mergePluginStep(base, syncSpec)
        r2 == mergeProviderStep(r1, sourceConfig, syncSpec)
        r3 == setModelStep(r2, syncSpec)
    IN  JObj(mergeExtraStep(r3, syncSpec))

buildMergedConfig(sourceConfig, targetConfig, syncSpec) ==
    IF syncSpec.mode = "none" THEN JNull
    ELSE IF syncSpec.mode = "full" THEN sourceConfig
    ELSE IF mergePluginStepThrows(Spread(OrEmpty(targetConfig)), syncSpec)
    THEN TypeErrorThrown
    ELSE LET base == Spread(OrEmpty(targetConfig))
             r1 == mergePluginStep(base, syncSpec)
             r2 == mergeProviderStep(r1, sourceConfig, syncSpec)
             r3 == setModelStep(r2, syncSpec)
         IN  JObj(mergeExtraStep(r3, syncSpec))

(***************************************************************************)
(* Bounded inputs of the merge engine.                                     *)
(***************************************************************************)
MaxPluginList == 2

\* "a@1", "a@2", "b", "@s/a", "@s/b", "@s/b@2"
PluginUniverse ==
    { <<"a", "@", "1">>, <<"a", "@", "2">>, <<"b">>,
      <<"@", "s", "/", "a">>, <<"@", "s", "/", "b">>,
      <<"@", "s", "/", "b", "@", "2">> }

PluginLists == UNION {[1..n -> PluginUniverse] : n \in 0..MaxPluginList}

\* object bodies over the keys of K with values in V
ObjectsOver(K, V) == UNION {[S -> V] : S \in SUBSET K}

InnerObjects == ObjectsOver({"x", "y"}, {JNum(1), JNum(2)})
BlockValues == {JNum(1), JNull, JArr(<<JNum(1)>>)} \cup {JObj(f) : f \in InnerObjects}
\* provider blocks: {} or {k: value}
ProviderBlocks == {JObj(f) : f \in ObjectsOver({"k"}, BlockValues)}

MergeSpec(plugins, providers, model, extra) ==
    [mode |-> "merge", plugins |-> plugins, providers |-> providers,
     model |-> model, extra |-> extra]

\* the configuration {provider: {p: block}}, or orElse when the block is missing
WithProvider(block, orElse) ==
    IF block = Undefined THEN orElse
    ELSE JObj([provider |-> JObj([p |-> block])])

ExtraChoices ==
    {Undefined, JObj([provider |-> JObj([p |-> JObj([k |-> JNum(2)])])])}

\* direct calls of mergePlugins
PluginCalls ==
    {[fn |-> "mergePlugins", existing |-> e, toAdd |-> a] :
        e \in PluginLists, a \in PluginLists}

\* buildMergedConfig over destination plugin lists and configSpec.plugins
ConfigPluginCalls ==
    {[fn |-> "buildMergedConfig", sourceConfig |-> JObj(EmptyObj),
      targetConfig |-> d, syncSpec |-> MergeSpec(pl, Undefined, Undefined, Undefined)] :
        d \in {JNull, JObj(EmptyObj), JObj([plugin |-> JNum(1)])}
                \cup {JObj([plugin |-> JArr(l)]) : l \in PluginLists},
        pl \in {Undefined} \cup {JArr(l) : l \in PluginLists}}

\* buildMergedConfig over one provider "p" whose spec is an object
ConfigProviderCalls ==
    {[fn |-> "buildMergedConfig",
      sourceConfig |-> WithProvider(sb, JObj(EmptyObj)),
      targetConfig |-> WithProvider(eb, JNull),
      syncSpec |-> MergeSpec(Undefined, JObj([p |-> spec]), Undefined, extra)] :
        sb \in ProviderBlocks \cup {Undefined},
        eb \in ProviderBlocks \cup {Undefined},
        spec \in ProviderBlocks,
        extra \in ExtraChoices}

\* buildMergedConfig over one provider "p" whose spec is true
ConfigProviderTrueCalls ==
    {[fn |-> "buildMergedConfig",
      sourceConfig |-> WithProvider(sb, JObj(EmptyObj)),
      targetConfig |-> WithProvider(eb, JNull),
      syncSpec |-> MergeSpec(Undefined, JObj([p |-> JBool(TRUE)]), Undefined, extra)] :
        sb \in ProviderBlocks \cup {Undefined, JNull, JNum(0), JNum(1)},
        eb \in ProviderBlocks \cup {Undefined},
        extra \in ExtraChoices}

\* the non-object values extra holds: a scalar, null, an array
ExtraLeaves == {JNum(2), JNull, JArr(<<JNum(1)>>)}

\* what extra holds under the key provider
ExtraProviderValues ==
    ExtraLeaves \cup {JObj([p |-> l]) : l \in ExtraLeaves}
                \cup {JObj([p |-> JObj([k |-> l])]) : l \in ExtraLeaves}

\* what extra holds under the key plugin: a scalar, null, a list of plugin
\* strings, and a list with an entry that is not a string
ExtraPluginValues == {JNum(2), JNull, JArr(<< <<"c">> >>), JArr(<<NonString>>)}

\* configSpec.extra over the keys the other steps write
Extras ==
    {JObj(g @@ h) :
        g \in {g \in ObjectsOver({"provider", "model"}, ExtraProviderValues) :
                  \A key \in DOMAIN g \ {"provider"} : g[key] \in ExtraLeaves},
        h \in ObjectsOver({"plugin"}, ExtraPluginValues)}

\* a destination that holds something under every key the steps write
FilledConfig ==
    JObj([plugin |-> JArr(<< <<"a", "@", "1">> >>),
          provider |-> JObj([p |-> JObj([k |-> JNum(3), x |-> JNum(1)])]),
          model |-> JStr("old")])

SomePlugins == {Undefined, JArr(<< <<"b">> >>)}
SomeProviders == {Undefined, JObj([p |-> JBool(TRUE)]), JObj([p |-> JObj([k |-> JNum(1)])])}
SomeModels == {Undefined, JStr("m")}

\* buildMergedConfig with extra set next to plugins, providers and model
ConfigExtraCalls ==
    {[fn |-> "buildMergedConfig",
      sourceConfig |-> src,
      targetConfig |-> d,
      syncSpec |-> MergeSpec(pl, pr, m, extra)] :
        src \in {JObj(EmptyObj), WithProvider(JObj([k |-> JNum(1)]), Undefined)},
        d \in {JNull, FilledConfig},
        pl \in SomePlugins, pr \in SomeProviders, m \in SomeModels,
        extra \in Extras}

\* buildMergedConfig with mode full or none and the merge fields set or not
ConfigModeCalls ==
    {[fn |-> "buildMergedConfig",
      sourceConfig |-> src,
      targetConfig |-> d,
      syncSpec |-> [MergeSpec(pl, pr, m, extra) EXCEPT !.mode = mode]] :
        src \in {JObj(EmptyObj), WithProvider(JObj([k |-> JNum(1)]), Undefined),
                 FilledConfig},
        d \in {JNull, JObj(EmptyObj), FilledConfig},
        pl \in SomePlugins, pr \in SomeProviders, m \in SomeModels,
        extra \in {Undefined, JObj([model |-> JNum(2)])},
        mode \in {"full", "none"}}

\* an object body of the keys whose value is not undefined
Defined(f) == [key \in {key \in DOMAIN f : f[key] # Undefined} |-> f[key]]

\* what the local configuration holds under provider: nothing, a number, or
\* blocks for the providers p and q
LocalProviders ==
    {Undefined, JNum(1)}
    \cup {JObj(f) : f \in ObjectsOver({"p", "q"},
                                      {JNum(0), JObj([k |-> JNum(1)]),
                                       JObj([k |-> JNum(5), x |-> JNum(1)])})}

\* local configurations with a theme, plugins and a model of their own
LocalConfigs ==
    {JObj(Defined([plugin |-> pl, provider |-> pr, model |-> m, theme |-> th])) :
        pl \in {Undefined, JArr(<< <<"a", "@", "1">> >>)},
        pr \in LocalProviders,
        m \in {Undefined, JStr("local")},
        th \in {Undefined, JStr("dark")}}

\* buildMergedConfig as buildBundleConfig calls it: no destination configuration
BundleFlowCalls ==
    {[fn |-> "buildMergedConfig",
      sourceConfig |-> src,
      targetConfig |-> JNull,
      syncSpec |-> MergeSpec(pl, pr, m, extra)] :
        src \in LocalConfigs,
        pl \in SomePlugins, pr \in SomeProviders, m \in SomeModels,
        extra \in {Undefined, JObj([share |-> JStr("auto")])}}

\* the values of the operands of deepMerge: a scalar, null, arrays, objects
MergeValues ==
    {JNum(1), JNull, JArr(<<JNum(1)>>), JArr(<<JNum(2), JNum(3)>>)}
    \cup {JObj(f) : f \in InnerObjects}

\* direct calls of deepMerge
DeepMergeCalls ==
    {[fn |-> "deepMerge", target |-> tg, source |-> src] :
        tg \in ObjectsOver({"a", "b"}, MergeValues),
        src \in ObjectsOver({"a", "b"}, MergeValues)}

Pending == [t |-> "pending", v |-> 0]

\* placeholder values of the variables a specification does not use
CbIdle ==
    [pc |-> "idle", dir |-> <<>>, files |-> <<>>, i |-> 0, manifestFiles |-> <<>>,
     contents |-> <<>>, error |-> "none", warned |-> <<>>]
RsIdle ==
    [pc |-> "idle", dir |-> <<>>, manifest |-> Undefined, i |-> 0, error |-> "none",
     before |-> [files |-> <<>>, dirs |-> {}], skipped |-> {}, exit |-> -1]
NoPayload == [t |-> "none", v |-> 0]
SyIdle ==
    [pc |-> "idle", target |-> <<>>, dryRun |-> FALSE, targets |-> <<>>, i |-> 0,
     success |-> 0, failed |-> 0, processed |-> <<>>, calls |-> <<>>, ghUsed |-> {},
     exit |-> -1, config |-> <<>>, configPath |-> <<>>, exits |-> <<>>,
     result |-> <<>>]
SyncUnused == sy = SyIdle
BundleUnused ==
    /\ fs = [files |-> <<>>, dirs |-> {}]
    /\ now = 0
    /\ resolved = Undefined
    /\ cb = CbIdle
    /\ payload = NoPayload
    /\ rs = RsIdle
MergeUnused == mcall = Pending /\ mret = Pending
ScratchUnused == runs = <<>>

(***************************************************************************)
(* SpecMerge: each behaviour evaluates one call of the merge engine.       *)
(***************************************************************************)
MergeInit ==
    /\ BundleUnused /\ SyncUnused /\ ScratchUnused
    /\ mret = Pending
    /\ \/ mcall \in PluginCalls
       \/ mcall \in ConfigPluginCalls
       \/ mcall \in ConfigProviderCalls
       \/ mcall \in ConfigProviderTrueCalls
       \/ mcall \in ConfigExtraCalls
       \/ mcall \in ConfigModeCalls
       \/ mcall \in BundleFlowCalls
       \/ mcall \in DeepMergeCalls

CallMergePlugins ==
    /\ mcall.fn = "mergePlugins"
    /\ mret = Pending
    /\ mret' = JArr(mergePlugins(mcall.existing, mcall.toAdd))
    /\ UNCHANGED mcall

CallBuildMergedConfig ==
    /\ mcall.fn = "buildMergedConfig"
    /\ mret = Pending
    /\ mret' = buildMergedConfig(mcall.sourceConfig, mcall.targetConfig, mcall.syncSpec)
    /\ UNCHANGED mcall

CallDeepMerge ==
    /\ mcall.fn = "deepMerge"
    /\ mret = Pending
    /\ mret' = JObj(deepMerge(mcall.target, mcall.source))
    /\ UNCHANGED mcall

MergeNext ==
    \/ CallMergePlugins /\ UNCHANGED <<bundleVars, syncVars, scratchVars>>
    \/ CallDeepMerge /\ UNCHANGED <<bundleVars, syncVars, scratchVars>>
    \/ CallBuildMergedConfig /\ UNCHANGED <<bundleVars, syncVars, scratchVars>>

SpecMerge == MergeInit /\ [][MergeNext]_vars

(***************************************************************************)
(* Claims about the merge engine.                                          *)
(***************************************************************************)
\* The identity of a plugin as the claims define it: the package name without
\* its @version suffix, where a scoped name keeps its leading "@scope/".
PackageName(p) ==
    LET from == IF Len(p) > 0 /\ p[1] = "@" THEN 2 ELSE 1
        ats == {i \in from..Len(p) : p[i] = "@"}
    IN  IF ats = {} THEN p
        ELSE SubSeq(p, 1, (CHOOSE i \in ats : \A j \in ats : i <= j) - 1)

NoDuplicatePackage(list) ==
    \A i, j \in 1..Len(list) : i # j => PackageName(list[i]) # PackageName(list[j])

\* replace-or-append by package name, as the claims describe it
RECURSIVE ReplaceOrAppend(_, _, _)
ReplaceOrAppend(list, toAdd, n) ==
    IF n > Len(toAdd) THEN list
    ELSE LET hits == {i \in 1..Len(list) : PackageName(list[i]) = PackageName(toAdd[n])}
         IN  IF hits = {}
             THEN ReplaceOrAppend(Append(list, toAdd[n]), toAdd, n + 1)
             ELSE ReplaceOrAppend(
                      [list EXCEPT ![CHOOSE i \in hits : \A j \in hits : i <= j] = toAdd[n]],
                      toAdd, n + 1)

MergeReturned == mret.t # "pending"

\* C8: for mode=merge the plugin list of the result of buildMergedConfig holds no
\* two entries with the same base identity. Stated here for destinations whose own
\* plugin list is free of duplicates, which only narrows the claim.
C8_NoDuplicatePlugin ==
    (/\ mcall.fn = "buildMergedConfig"
     /\ MergeReturned
     /\ mcall.syncSpec.mode = "merge"
     /\ Prop(mcall.targetConfig, "plugin").t = "arr"
            => NoDuplicatePackage(Prop(mcall.targetConfig, "plugin").v))
    => (Prop(mret, "plugin").t = "arr" => NoDuplicatePackage(Prop(mret, "plugin").v))

\* C9: mergePlugins replaces the entry that names the same plugin in place and
\* appends otherwise, also for scoped names such as "@scope/name", and merging a
\* duplicate-free list into itself leaves it unchanged.
C9_ReplaceOrAppend ==
    (mcall.fn = "mergePlugins" /\ MergeReturned)
    => /\ mret.v = ReplaceOrAppend(mcall.existing, mcall.toAdd, 1)
       /\ (mcall.toAdd = mcall.existing /\ NoDuplicatePackage(mcall.existing))
              => mret.v = mcall.existing

\* a returned merge-mode call of buildMergedConfig without a destination
\* configuration, as buildBundleConfig makes it
BundleFlowCall ==
    /\ mcall.fn = "buildMergedConfig"
    /\ MergeReturned
    /\ mcall.syncSpec.mode = "merge"
    /\ mcall.targetConfig = JNull

\* the provider names of configSpec.providers
NamedProviders(syncSpec) == DOMAIN Spread(syncSpec.providers)

\* two local configurations hold the same block for every named provider
AgreeOnNamed(a, b, syncSpec) ==
    \A name \in NamedProviders(syncSpec) :
        Prop(Prop(a, "provider"), name) = Prop(Prop(b, "provider"), name)

\* C29: in the bundle flow with mode=merge the top-level keys of the generated
\* configuration are among plugin, provider, model and the keys of extra, and
\* every local configuration that agrees with the given one on the provider
\* blocks named in configSpec.providers yields the same generated
\* configuration.
C29_MergeShipsOnlyNamed ==
    BundleFlowCall =>
        /\ DOMAIN mret.v \subseteq
               {"plugin", "provider", "model"} \cup DOMAIN Spread(mcall.syncSpec.extra)
        /\ \A other \in LocalConfigs :
               AgreeOnNamed(mcall.sourceConfig, other, mcall.syncSpec) =>
                   buildMergedConfig(other, JNull, mcall.syncSpec) = mret

\* a local configuration with a theme, a model and a block for the unnamed
\* provider q, of which only the named block of p reaches the result
C29_Witness ==
    /\ BundleFlowCall
    /\ NamedProviders(mcall.syncSpec) = {"p"}
    /\ Prop(mcall.sourceConfig, "theme") # Undefined
    /\ Prop(mcall.sourceConfig, "model") # Undefined
    /\ IsPlainObject(Prop(Prop(mcall.sourceConfig, "provider"), "q"))
    /\ IsPlainObject(Prop(Prop(mcall.sourceConfig, "provider"), "p"))
    /\ Prop(Prop(mret, "provider"), "p") # Undefined
    /\ Prop(Prop(mret, "provider"), "q") = Undefined
    /\ Prop(mret, "theme") = Undefined

\* a returned merge-mode call of buildMergedConfig
MergeModeCall ==
    /\ mcall.fn = "buildMergedConfig"
    /\ MergeReturned
    /\ mcall.syncSpec.mode = "merge"

\* C30: for mode=merge and every source, destination and spec, applying the
\* same merge to its own output changes nothing: buildMergedConfig(S,
\* buildMergedConfig(S, D, spec), spec) is structurally equal to
\* buildMergedConfig(S, D, spec).
C30_MergeIdempotent ==
    MergeModeCall =>
        buildMergedConfig(mcall.sourceConfig, mret, mcall.syncSpec) = mret

\* the provider call's blocks: destination, source, spec (a missing block is {})
ExistingBlock == Spread(Prop(Prop(mcall.targetConfig, "provider"), "p"))
SourceBlock == Spread(Prop(Prop(mcall.sourceConfig, "provider"), "p"))
SpecBlock == Spread(Prop(mcall.syncSpec.providers, "p"))
ResultBlock == Prop(Prop(mret, "provider"), "p")

ProviderObjectCall ==
    /\ mcall.fn = "buildMergedConfig"
    /\ MergeReturned
    /\ mcall.syncSpec.mode = "merge"
    /\ IsPlainObject(Prop(mcall.syncSpec.providers, "p"))

\* C10 as stated: the result's block equals
\* deepMerge(deepMerge(existingBlock, sourceBlock), spec). Stated here for calls
\* whose configSpec.extra leaves the key provider alone, which only narrows the claim.
C10_LeftNested ==
    (ProviderObjectCall /\ Prop(mcall.syncSpec.extra, "provider") = Undefined)
    => ResultBlock = JObj(deepMerge(deepMerge(ExistingBlock, SourceBlock), SpecBlock))

\* C10 as amended: when configSpec.extra does not itself set the key provider, the
\* result's block equals deepMerge(existingBlock, deepMerge(sourceBlock, spec)).
C10_RightNested ==
    (ProviderObjectCall /\ Prop(mcall.syncSpec.extra, "provider") = Undefined)
    => ResultBlock = JObj(deepMerge(ExistingBlock, deepMerge(SourceBlock, SpecBlock)))

\* C10 witness: a returned call in which the two nestings differ (the source block
\* holds a scalar where the destination and the spec hold objects)
C10_Witness ==
    /\ ProviderObjectCall
    /\ Prop(mcall.syncSpec.extra, "provider") = Undefined
    /\ Get(ExistingBlock, "k") = JObj([x |-> JNum(1)])
    /\ Get(SourceBlock, "k") = JNum(1)
    /\ Get(SpecBlock, "k") = JObj([y |-> JNum(2)])
    /\ ResultBlock = JObj([k |-> JObj([x |-> JNum(1), y |-> JNum(2)])])

\* result follows the rule of the deep merge of incoming onto target: the keys
\* are those of both, a key of target alone keeps its value, a key of incoming
\* whose values are plain objects on both sides follows the rule in turn, and
\* any other key of incoming holds the incoming value
RECURSIVE MergedByRule(_, _, _)
MergedByRule(result, target, incoming) ==
    /\ DOMAIN result = DOMAIN target \cup DOMAIN incoming
    /\ \A key \in DOMAIN target \ DOMAIN incoming : result[key] = target[key]
    /\ \A key \in DOMAIN incoming :
          IF /\ key \in DOMAIN target
             /\ target[key].t = "obj" /\ incoming[key].t = "obj"
          THEN /\ result[key].t = "obj"
               /\ MergedByRule(result[key].v, target[key].v, incoming[key].v)
          ELSE result[key] = incoming[key]

\* C23: deepMerge(target, incoming) recurses into a key only when the values on
\* both sides are plain objects (not null, not arrays); for every other key of
\* incoming the incoming value replaces the existing value entirely, so an array
\* is never concatenated or merged element by element, and the keys present
\* only in target are kept unchanged.
C23_DeepMergeRule ==
    (mcall.fn = "deepMerge" /\ MergeReturned)
    => MergedByRule(mret.v, mcall.target, mcall.source)

\* arrays on both sides of a and objects on both sides of b: the incoming array
\* replaces the array, the objects are merged
C23_Witness ==
    /\ mcall.fn = "deepMerge" /\ MergeReturned
    /\ mcall.target = [a |-> JArr(<<JNum(1)>>), b |-> JObj([x |-> JNum(1)])]
    /\ mcall.source = [a |-> JArr(<<JNum(2), JNum(3)>>), b |-> JObj([y |-> JNum(2)])]
    /\ mret = JObj([a |-> JArr(<<JNum(2), JNum(3)>>),
                    b |-> JObj([x |-> JNum(1), y |-> JNum(2)])])

\* the provider call's blocks as they stand in the configurations (Undefined when missing)
ExistingProvider == Prop(Prop(mcall.targetConfig, "provider"), "p")
SourceProvider == Prop(Prop(mcall.sourceConfig, "provider"), "p")

ProviderTrueCall ==
    /\ mcall.fn = "buildMergedConfig"
    /\ MergeReturned
    /\ mcall.syncSpec.mode = "merge"
    /\ Prop(mcall.syncSpec.providers, "p") = JBool(TRUE)
    /\ Prop(mcall.syncSpec.extra, "provider") = Undefined

\* C11 as stated: for mode=merge and a provider whose spec is true, the result's
\* block for the provider is exactly sourceConfig.provider[providerName], whatever
\* block the destination had. Stated here for calls whose configSpec.extra leaves
\* the key provider alone, which only narrows the claim.
C11_SourceBlockAlways ==
    ProviderTrueCall => ResultBlock = SourceProvider

\* C11, amended: for mode=merge and a provider whose spec is true, when the source
\* configuration holds a (truthy) block for the provider the result's block is
\* exactly that block and nothing of the destination's block survives; when the
\* source holds none, the destination's block is left as it was.
C11_SourceBlockWhenPresent ==
    ProviderTrueCall
    => IF Truthy(SourceProvider)
       THEN ResultBlock = SourceProvider
       ELSE ResultBlock = ExistingProvider

C11_Witness ==
    /\ ProviderTrueCall
    /\ ExistingProvider = JObj([k |-> JNum(1)])
    /\ SourceProvider = JObj(EmptyObj)
    /\ ResultBlock = JObj(EmptyObj)

\* the value at every path of the object body extra that ends in a non-object value
\* is the value found at the same path of val
RECURSIVE HoldsLeavesOf(_, _)
HoldsLeavesOf(val, extra) ==
    /\ IsPlainObject(val)
    /\ \A key \in DOMAIN extra :
          /\ key \in DOMAIN val.v
          /\ IF IsPlainObject(extra[key])
             THEN HoldsLeavesOf(val.v[key], extra[key].v)
             ELSE val.v[key] = extra[key]

ExtraCall ==
    /\ mcall.fn = "buildMergedConfig"
    /\ MergeReturned
    /\ mcall.syncSpec.mode = "merge"
    /\ IsPlainObject(mcall.syncSpec.extra)

\* C12: extra has the highest precedence: for mode=merge, at every key path where
\* configSpec.extra holds a non-object value (a scalar, null or an array) the
\* returned configuration holds exactly that value, also when configSpec.plugins,
\* configSpec.providers or configSpec.model set the same key.
C12_ExtraWins ==
    ExtraCall => HoldsLeavesOf(mret, mcall.syncSpec.extra.v)

C12_Witness ==
    /\ ExtraCall
    /\ mcall.targetConfig = FilledConfig
    /\ mcall.syncSpec.plugins # Undefined
    /\ mcall.syncSpec.providers = JObj([p |-> JObj([k |-> JNum(1)])])
    /\ mcall.syncSpec.model = JStr("m")
    /\ mcall.syncSpec.extra =
           JObj([plugin |-> JNull,
                 provider |-> JObj([p |-> JObj([k |-> JArr(<<JNum(1)>>)])]),
                 model |-> JNum(2)])
    /\ mret = JObj([plugin |-> JNull,
                    provider |-> JObj([p |-> JObj([k |-> JArr(<<JNum(1)>>),
                                                   x |-> JNum(1)])]),
                    model |-> JNum(2)])

ModeCall(mode) ==
    /\ mcall.fn = "buildMergedConfig"
    /\ MergeReturned
    /\ mcall.syncSpec.mode = mode

\* C13: for every source configuration and every destination, buildMergedConfig
\* with mode=full returns an object structurally equal to the source
\* configuration, and with mode=none returns null, whatever plugins, providers,
\* model and extra contain.
C13_ModeIdentity ==
    /\ ModeCall("full") => mret = mcall.sourceConfig
    /\ ModeCall("none") => mret = JNull

C13_Witness ==
    /\ ModeCall("full")
    /\ mcall.sourceConfig = WithProvider(JObj([k |-> JNum(1)]), Undefined)
    /\ mcall.targetConfig = FilledConfig
    /\ mcall.syncSpec.plugins # Undefined
    /\ mcall.syncSpec.providers = JObj([p |-> JBool(TRUE)])
    /\ mcall.syncSpec.model = JStr("m")
    /\ mcall.syncSpec.extra # Undefined
    /\ mret = mcall.sourceConfig

(***************************************************************************)
(* Paths (node:path). A path is a sequence of segments; a path string that *)
(* starts with "/" carries the segment "/" first. Paths of the filesystem  *)
(* are normalised absolute paths and carry no "/", "." or ".." segment.    *)
(***************************************************************************)
\* normalisation: "/" and "." segments vanish, ".." drops the segment before it
RECURSIVE Normalize(_, _)
Normalize(done, rest) ==
    IF rest = <<>> THEN done
    ELSE IF Head(rest) \in {"/", "."} THEN Normalize(done, Tail(rest))
    ELSE IF Head(rest) = ".."
    THEN Normalize(IF done = <<>> THEN done ELSE SubSeq(done, 1, Len(done) - 1), Tail(rest))
    ELSE Normalize(Append(done, Head(rest)), Tail(rest))

\* join(base, rel) for a normalised absolute base
join(base, rel) == Normalize(base, rel)

\* resolve(base, p): p itself when it is absolute
resolve(base, p) ==
    IF p # <<>> /\ Head(p) = "/" THEN Normalize(<<>>, p) ELSE Normalize(base, p)

\* dirname(p)
dirname(p) == IF p = <<>> THEN p ELSE SubSeq(p, 1, Len(p) - 1)

IsPrefix(a, b) == Len(a) <= Len(b) /\ SubSeq(b, 1, Len(a)) = a

\* the proper ancestors of p below the root
Ancestors(p) == {SubSeq(p, 1, n) : n \in 1..(Len(p) - 1)}

\* os.homedir(), os.tmpdir(), process.cwd()
homedir == <<"home">>
tmpdir == <<"tmp">>
cwd == <<"proj">>

\* getOpenCodePaths()
OpenCodePaths ==
    [configDir |-> join(homedir, <<".config", "opencode">>),
     dataDir |-> join(homedir, <<".local", "share", "opencode">>),
     opencodeConfig |-> join(homedir, <<".config", "opencode", "opencode.jsonc">>)]

\* getProjectPaths()
ProjectPaths ==
    [agentDir |-> join(cwd, <<".opencode", "agent">>),
     skillDir |-> join(cwd, <<".opencode", "skill">>),
     commandDir |-> join(cwd, <<".opencode", "command">>)]

(***************************************************************************)
(* The filesystem (node:fs, Bun.write, Bun.file). f is a record            *)
(* [files, dirs]; every ancestor of a file or directory is a directory.    *)
(* File contents are tagged: bytes, json (parseable text), manifest.       *)
(***************************************************************************)
Bytes(id) == [t |-> "bytes", v |-> id]
Json(val) == [t |-> "json", v |-> val]

IsFile(f, p) == p \in DOMAIN f.files
IsDir(f, p) == p \in f.dirs
existsSync(f, p) == IsFile(f, p) \/ IsDir(f, p)

\* whether the directories leading to p can exist (no ancestor is a file)
CanReach(f, p) == \A a \in Ancestors(p) : ~IsFile(f, a)

\* mkdirSync(p, {recursive: true}); fails when p or an ancestor is a file
CanMkdir(f, p) == CanReach(f, p) /\ ~IsFile(f, p)
mkdirSync(f, p) == [f EXCEPT !.dirs = @ \cup Ancestors(p) \cup {p}]

\* writing a file at p (parents are created); fails when p is a directory or
\* an ancestor is a file
CanWrite(f, p) == CanReach(f, p) /\ ~IsDir(f, p) /\ p # <<>>
WriteFile(f, p, content) ==
    [files |-> [q \in DOMAIN f.files \cup {p} |-> IF q = p THEN content ELSE f.files[q]],
     dirs |-> f.dirs \cup Ancestors(p)]

\* rmSync(d, {recursive: true, force: true})
rmSync(f, d) ==
    [files |-> [q \in {q \in DOMAIN f.files : ~IsPrefix(d, q)} |-> f.files[q]],
     dirs |-> {q \in f.dirs : ~IsPrefix(d, q)}]

\* readdirSync(d): the names of the entries of directory d
readdirSync(f, d) ==
    {q[Len(d) + 1] : q \in {q \in DOMAIN f.files \cup f.dirs : Len(q) = Len(d) + 1 /\ IsPrefix(d, q)}}

\* the files and directories below directory d, as paths relative to d
TreeFiles(f, d) ==
    {SubSeq(q, Len(d) + 1, Len(q)) : q \in {q \in DOMAIN f.files : IsPrefix(d, q)}}
TreeDirs(f, d) ==
    {SubSeq(q, Len(d) + 1, Len(q)) : q \in {q \in f.dirs : IsPrefix(d, q) /\ q # d}}

\* cpSync(src, dest, {recursive: true, force: true}): a file is copied over dest,
\* a directory is copied with everything below it. It fails when a file would
\* replace a directory or a directory a file.
CanCp(f, src, dest) ==
    IF IsFile(f, src) THEN CanWrite(f, dest)
    ELSE /\ CanMkdir(f, dest)
         /\ \A r \in TreeFiles(f, src) : ~IsDir(f, dest \o r)
         /\ \A r \in TreeDirs(f, src) : ~IsFile(f, dest \o r)
         /\ \A r \in TreeFiles(f, src) : \A a \in Ancestors(r) : ~IsFile(f, dest \o a)
cpSync(f, src, dest) ==
    IF IsFile(f, src) THEN WriteFile(f, dest, f.files[src])
    ELSE LET copied == {dest \o r : r \in TreeFiles(f, src)}
         IN  [files |-> [q \in DOMAIN f.files \cup copied |->
                            IF q \in copied
                            THEN f.files[src \o SubSeq(q, Len(dest) + 1, Len(q))]
                            ELSE f.files[q]],
              dirs |-> f.dirs \cup Ancestors(dest) \cup {dest}
                          \cup {dest \o r : r \in TreeDirs(f, src)}]

(***************************************************************************)
(* presets.ts                                                              *)
(***************************************************************************)
PRESETS ==
    [antigravity |-> <<[type |-> "config", path |-> <<"antigravity-accounts.json">>]>>,
     auth |-> <<[type |-> "data", path |-> <<"auth.json">>]>>,
     credentials |-> <<[type |-> "config", path |-> <<"credentials.json">>]>>]

\* names every object literal inherits from Object.prototype
ObjectPrototypeNames == {"constructor", "toString", "valueOf", "hasOwnProperty", "__proto__"}

\* getPreset(name) is PRESETS[name]: the preset's files for a key of PRESETS, the
\* inherited member (a value without files) for a name of Object.prototype,
\* Undefined for any other name
getPreset(name) ==
    IF name \in DOMAIN PRESETS THEN [t |-> "preset", v |-> PRESETS[name]]
    ELSE IF name \in ObjectPrototypeNames THEN [t |-> "inherited", v |-> <<>>]
    ELSE Undefined

(***************************************************************************)
(* bundle.ts: collectBundleFiles. A BundleFile is a record                 *)
(* [sourcePath, targetPath, relativeTo].                                   *)
(***************************************************************************)
BundleFile(sourcePath, targetPath, relativeTo) ==
    [sourcePath |-> sourcePath, targetPath |-> targetPath, relativeTo |-> relativeTo]

\* the names of the model's universe that end with ".md"
MarkdownNames == {"review.md", "fix.md"}

\* a set of names as the list readdirSync returns (the order is the system's)
RECURSIVE Listing(_)
Listing(S) ==
    IF S = {} THEN <<>>
    ELSE LET x == CHOOSE x \in S : TRUE IN <<x>> \o Listing(S \ {x})

RECURSIVE MapMarkdown(_, _, _)
MapMarkdown(names, sourceDir, targetDir) ==
    IF names = <<>> THEN <<>>
    ELSE (IF Head(names) \in MarkdownNames
          THEN <<BundleFile(join(sourceDir, <<Head(names)>>),
                            <<targetDir, Head(names)>>, "config")>>
          ELSE <<>>) \o MapMarkdown(Tail(names), sourceDir, targetDir)

collectMarkdownFiles(f, sourceDir, targetDir) ==
    IF ~existsSync(f, sourceDir) THEN <<>>
    ELSE MapMarkdown(Listing(readdirSync(f, sourceDir)), sourceDir, targetDir)

\* mutant of AddToSet: a list that keeps repeated names
AddToList(list, x) == Append(list, x)

\* presetsToLoad: a Set in insertion order
AddToSet(list, x) == IF \E i \in 1..Len(list) : list[i] = x THEN list ELSE Append(list, x)

RECURSIVE AddAllToSet(_, _)
AddAllToSet(list, xs) ==
    IF xs = <<>> THEN list ELSE AddAllToSet(AddToSet(list, Head(xs)), Tail(xs))

presetsToLoad(authSpec) ==
    LET s0 == IF "presets" \in DOMAIN authSpec THEN AddAllToSet(<<>>, authSpec["presets"])
              ELSE <<>>
        s1 == IF "antigravity-accounts" \in DOMAIN authSpec /\ authSpec["antigravity-accounts"]
              THEN AddToSet(s0, "antigravity") ELSE s0
        s2 == IF "auth" \in DOMAIN authSpec /\ authSpec["auth"]
              THEN AddToSet(s1, "auth") ELSE s1
    IN  IF "credentials" \in DOMAIN authSpec /\ authSpec["credentials"]
        THEN AddToSet(s2, "credentials") ELSE s2

RECURSIVE collectPresetFiles(_, _)
collectPresetFiles(f, presetFiles) ==
    IF presetFiles = <<>> THEN <<>>
    ELSE LET file == Head(presetFiles)
             sourceRoot == IF file.type = "config" THEN OpenCodePaths.configDir
                           ELSE OpenCodePaths.dataDir
             sourcePath == join(sourceRoot, file.path)
         IN  (IF existsSync(f, sourcePath)
              THEN <<BundleFile(sourcePath, file.path, file.type)>>
              ELSE <<>>) \o collectPresetFiles(f, Tail(presetFiles))

RECURSIVE collectPresets(_, _)
collectPresets(f, names) ==
    IF names = <<>> THEN <<>>
    ELSE (IF getPreset(Head(names)) = Undefined THEN <<>>
          ELSE collectPresetFiles(f, getPreset(Head(names)).v))
         \o collectPresets(f, Tail(names))

\* "for (const file of preset.files)" throws a TypeError when the value found
\* under the name has no files: the position of the first such name, 0 for none
firstThrowingPreset(names) ==
    LET bad == {n \in DOMAIN names : getPreset(names[n]).t = "inherited"}
    IN  IF bad = {} THEN 0 ELSE CHOOSE n \in bad : \A m \in bad : n <= m

\* collectBundleFiles throws
collectBundleFilesThrows(tgt) == firstThrowingPreset(presetsToLoad(tgt.sync.auth)) > 0

\* the names console.warn reports as "Unknown preset", in order, up to the
\* name at which the loop throws
presetWarnings(names) ==
    LET IsUnknown(name) == getPreset(name) = Undefined
        upTo == IF firstThrowingPreset(names) > 0 THEN firstThrowingPreset(names) - 1
                ELSE Len(names)
    IN  SelectSeq(SubSeq(names, 1, upTo), IsUnknown)

RECURSIVE collectSkills(_, _)
collectSkills(f, skills) ==
    IF skills = <<>> THEN <<>>
    ELSE LET skillPath == join(ProjectPaths.skillDir, <<Head(skills)>>)
             skillFile == join(skillPath, <<"SKILL.md">>)
         IN  (IF IsDir(f, skillPath) /\ existsSync(f, skillFile)
              THEN <<BundleFile(skillFile, <<"skill", Head(skills), "SKILL.md">>, "config")>>
              ELSE <<>>) \o collectSkills(f, Tail(skills))

\* mutant of collectIncludes: every item is pushed, existing or not
collectIncludesUnchecked(f, include) ==
    [n \in DOMAIN include |->
        BundleFile(resolve(cwd, include[n].source), include[n].dest, "data")]

\* an include item is [source, dest]; a string item has the string as both
RECURSIVE collectIncludes(_, _)
collectIncludes(f, include) ==
    IF include = <<>> THEN <<>>
    ELSE LET item == Head(include)
             source == resolve(cwd, item.source)
         IN  (IF existsSync(f, source)
              THEN <<BundleFile(source, item.dest, "data")>>
              ELSE <<>>) \o collectIncludes(f, Tail(include))

\* mutant of collectBundleFiles: the commands are scanned before the skills
collectBundleFilesCommandsFirst(f, tgt) ==
    collectPresets(f, presetsToLoad(tgt.sync.auth))
    \o (IF tgt.sync.agents
        THEN collectMarkdownFiles(f, ProjectPaths.agentDir, "agent") ELSE <<>>)
    \o (IF tgt.sync.commands
        THEN collectMarkdownFiles(f, ProjectPaths.commandDir, "command") ELSE <<>>)
    \o (IF tgt.sync.skills /\ existsSync(f, ProjectPaths.skillDir)
        THEN collectSkills(f, Listing(readdirSync(f, ProjectPaths.skillDir))) ELSE <<>>)
    \o (IF tgt.sync.opencodeConfigDir /\ existsSync(f, OpenCodePaths.configDir)
        THEN <<BundleFile(OpenCodePaths.configDir, <<".">>, "config")>> ELSE <<>>)
    \o (IF tgt.sync.opencodeDataDir /\ existsSync(f, OpenCodePaths.dataDir)
        THEN <<BundleFile(OpenCodePaths.dataDir, <<".">>, "data")>> ELSE <<>>)
    \o collectIncludes(f, tgt.sync.include)

collectBundleFiles(f, tgt) ==
    collectPresets(f, presetsToLoad(tgt.sync.auth))
    \o (IF tgt.sync.agents
        THEN collectMarkdownFiles(f, ProjectPaths.agentDir, "agent") ELSE <<>>)
    \o (IF tgt.sync.skills /\ existsSync(f, ProjectPaths.skillDir)
        THEN collectSkills(f, Listing(readdirSync(f, ProjectPaths.skillDir))) ELSE <<>>)
    \o (IF tgt.sync.commands
        THEN collectMarkdownFiles(f, ProjectPaths.commandDir, "command") ELSE <<>>)
    \o (IF tgt.sync.opencodeConfigDir /\ existsSync(f, OpenCodePaths.configDir)
        THEN <<BundleFile(OpenCodePaths.configDir, <<".">>, "config")>> ELSE <<>>)
    \o (IF tgt.sync.opencodeDataDir /\ existsSync(f, OpenCodePaths.dataDir)
        THEN <<BundleFile(OpenCodePaths.dataDir, <<".">>, "data")>> ELSE <<>>)
    \o collectIncludes(f, tgt.sync.include)

\* mutant of localSourceConfig: the local file is never read
localSourceConfigUnread(f) == JObj(EmptyObj)

\* buildBundleConfig: the local opencode.jsonc, or {} when it is missing or unparsable
localSourceConfig(f) ==
    IF IsFile(f, OpenCodePaths.opencodeConfig)
       /\ f.files[OpenCodePaths.opencodeConfig].t = "json"
    THEN f.files[OpenCodePaths.opencodeConfig].v
    ELSE JObj(EmptyObj)

buildBundleConfig(f, tgt) ==
    IF tgt.sync.config.mode = "none" THEN JNull
    ELSE buildMergedConfig(localSourceConfig(f), JNull, tgt.sync.config)

(***************************************************************************)
(* bundle.ts: createBundleDirectory, createTarball, createBundle, one      *)
(* action per step. A step that throws inside createBundleDirectory ends   *)
(* createBundle at once; a step inside createBundle's try block runs the   *)
(* finally block (rmSync of the staging directory) before it ends.         *)
(***************************************************************************)
NoRunInFlight == cb.pc \in {"idle", "returned", "threw"} /\ rs.pc \in {"idle", "returned", "threw"}

\* join(tmpdir(), `opencode-sync-${Date.now()}`)
bundleDirAt(t) == join(tmpdir, <<"opencode-sync-" \o ToString(t)>>)
stagedConfigDir(bundleDir) == join(bundleDir, <<"config", "opencode">>)
stagedDataDir(bundleDir) == join(bundleDir, <<"data", "opencode">>)

\* staging that ignores the category of the file
stagedPathInData(bundleDir, file) == join(stagedDataDir(bundleDir), file.targetPath)

\* where createBundleDirectory writes a collected file
stagedPath(bundleDir, file) ==
    join(IF file.relativeTo = "config" THEN stagedConfigDir(bundleDir)
         ELSE stagedDataDir(bundleDir),
         file.targetPath)

\* createBundleDirectory up to the collection of the files
CreateBundleStart ==
    /\ cb.pc = "idle" /\ rs.pc = "idle" /\ payload = NoPayload
    /\ LET bundleDir == bundleDirAt(now)
           f1 == mkdirSync(mkdirSync(mkdirSync(fs, bundleDir), stagedConfigDir(bundleDir)),
                           stagedDataDir(bundleDir))
           warned == presetWarnings(presetsToLoad(resolved.sync.auth))
       IN  /\ fs' = f1
           /\ cb' = IF collectBundleFilesThrows(resolved)
                    THEN [cb EXCEPT !.pc = "threw", !.dir = bundleDir,
                                    !.error = "collect", !.warned = warned]
                    ELSE [cb EXCEPT !.pc = "stage", !.dir = bundleDir,
                                    !.files = collectBundleFiles(f1, resolved), !.i = 1,
                                    !.warned = warned]
    /\ UNCHANGED <<now, resolved, payload, rs>>

\* one turn of the staging loop: Bun.write(destPath, Bun.file(file.sourcePath))
StageFile ==
    /\ cb.pc = "stage" /\ cb.i <= Len(cb.files)
    /\ \E ioFault \in BOOLEAN :
         LET file == cb.files[cb.i]
             destPath == stagedPath(cb.dir, file)
         IN  IF ~ioFault /\ IsFile(fs, file.sourcePath) /\ CanWrite(fs, destPath)
             THEN /\ fs' = WriteFile(fs, destPath, fs.files[file.sourcePath])
                  /\ cb' = [cb EXCEPT !.i = @ + 1,
                               !.manifestFiles =
                                   Append(@, [path |-> file.targetPath,
                                              relativeTo |-> file.relativeTo]),
                               !.contents = Append(@, fs.files[file.sourcePath])]
             ELSE /\ cb' = [cb EXCEPT !.pc = "threw", !.error = "copy"]
                  /\ UNCHANGED fs
    /\ UNCHANGED <<now, resolved, payload, rs>>

\* buildBundleConfig and the write of the generated opencode.jsonc
WriteBundleConfig ==
    /\ cb.pc = "stage" /\ cb.i > Len(cb.files)
    /\ LET config == buildBundleConfig(fs, resolved)
           configPath == join(stagedConfigDir(cb.dir), <<"opencode.jsonc">>)
       IN  IF Truthy(config)
           THEN \E ioFault \in BOOLEAN :
                  IF ~ioFault /\ CanWrite(fs, configPath)
                  THEN /\ fs' = WriteFile(fs, configPath, Json(config))
                       /\ cb' = [cb EXCEPT !.pc = "manifest",
                                    !.manifestFiles =
                                        Append(@, [path |-> <<"opencode.jsonc">>,
                                                   relativeTo |-> "config"])]
                  ELSE /\ cb' = [cb EXCEPT !.pc = "threw", !.error = "config"]
                       /\ UNCHANGED fs
           ELSE /\ cb' = [cb EXCEPT !.pc = "manifest"]
                /\ UNCHANGED fs
    /\ UNCHANGED <<now, resolved, payload, rs>>

\* the BundleManifest createBundleDirectory writes
bundleManifest(files, tgt, created) ==
    [version |-> "1.0.0", created |-> created, target |-> tgt.name, files |-> files,
     configMode |-> tgt.sync.config.mode]

Manifest(m) == [t |-> "manifest", v |-> m]

WriteManifest ==
    /\ cb.pc = "manifest"
    /\ \E ioFault \in BOOLEAN :
         LET manifestPath == join(cb.dir, <<"manifest.json">>)
         IN  IF ~ioFault /\ CanWrite(fs, manifestPath)
             THEN /\ fs' = WriteFile(fs, manifestPath,
                                     Manifest(bundleManifest(cb.manifestFiles, resolved, now)))
                  /\ cb' = [cb EXCEPT !.pc = "archive"]
             ELSE /\ cb' = [cb EXCEPT !.pc = "threw", !.error = "manifest"]
                  /\ UNCHANGED fs
    /\ UNCHANGED <<now, resolved, payload, rs>>

\* createTarball: tar -czf - -C bundleDir . (the tree below bundleDir, relative to it)
createTarball(f, bundleDir) ==
    [files |-> [r \in TreeFiles(f, bundleDir) |-> f.files[bundleDir \o r]],
     dirs |-> TreeDirs(f, bundleDir)]

\* Buffer.from(tarball).toString("base64") and Buffer.from(base64, "base64")
Base64(tarball) == [t |-> "b64", v |-> tarball]
FromBase64(text) == text.v

\* createBundle's try block: the archive, the encoding, and the finally block
ArchiveBundle ==
    /\ cb.pc = "archive"
    /\ \E tarFails \in BOOLEAN :
         IF tarFails
         THEN /\ cb' = [cb EXCEPT !.pc = "threw", !.error = "tar"]
              /\ UNCHANGED payload
         ELSE /\ cb' = [cb EXCEPT !.pc = "returned"]
              /\ payload' = Base64(createTarball(fs, cb.dir))
    /\ fs' = rmSync(fs, cb.dir)
    /\ UNCHANGED <<now, resolved, rs>>

(***************************************************************************)
(* bundle.ts: restoreBundle, called by the restore command (handleRestore) *)
(* on the text of the environment variable. Every step after the creation  *)
(* of the scratch directory is inside the try block: a step that throws    *)
(* runs the finally block (rmSync of the scratch directory) before         *)
(* restoreBundle ends, and handleRestore then exits with status 1.         *)
(***************************************************************************)
\* join(tmpdir(), `opencode-restore-${Date.now()}`)
restoreDirAt(t) == join(tmpdir, <<"opencode-restore-" \o ToString(t)>>)

\* the roots restoreBundle writes to
restoreConfigDir == join(homedir, <<".config", "opencode">>)
restoreDataDir == join(homedir, <<".local", "share", "opencode">>)

\* tar -xzf tarPath -C tmpDir
extractTarball(f, tmpDir, tarball) ==
    LET extracted == {tmpDir \o r : r \in DOMAIN tarball.files}
    IN  [files |-> [q \in DOMAIN f.files \cup extracted |->
                       IF q \in extracted
                       THEN tarball.files[SubSeq(q, Len(tmpDir) + 1, Len(q))]
                       ELSE f.files[q]],
         dirs |-> f.dirs \cup {tmpDir \o r : r \in tarball.dirs}
                     \cup UNION {Ancestors(q) : q \in extracted}]

\* restoreBundle without its finally block
RestoreThrowsNoCleanup(f, r, why) ==
    /\ fs' = f
    /\ rs' = [r EXCEPT !.pc = "threw", !.error = why, !.exit = 1]

\* the throw of a step inside the try block: the finally block removes the
\* scratch directory, and handleRestore's catch exits with status 1
RestoreThrows(f, r, why) ==
    /\ fs' = rmSync(f, r.dir)
    /\ rs' = [r EXCEPT !.pc = "threw", !.error = why, !.exit = 1]

\* handleRestore and restoreBundle up to the extraction of the archive
RestoreStart ==
    /\ rs.pc = "idle" /\ cb.pc \in {"idle", "returned"} /\ payload # NoPayload
    /\ IF ~(CanMkdir(fs, restoreConfigDir) /\ CanMkdir(fs, restoreDataDir))
       THEN /\ rs' = [rs EXCEPT !.pc = "threw", !.error = "mkdir", !.exit = 1,
                                !.before = fs]
            /\ UNCHANGED fs
       ELSE \E tarFails \in BOOLEAN :
              LET tmpDir == restoreDirAt(now)
                  f1 == mkdirSync(mkdirSync(mkdirSync(fs, restoreConfigDir), restoreDataDir),
                                  tmpDir)
                  f2 == WriteFile(f1, join(tmpDir, <<"bundle.tar.gz">>), Bytes("tarball"))
                  r == [rs EXCEPT !.dir = tmpDir, !.before = fs]
              IN  IF tarFails \/ payload.t # "b64"
                  THEN RestoreThrows(f2, r, "tar")
                  ELSE /\ fs' = extractTarball(f2, tmpDir, FromBase64(payload))
                       /\ rs' = [r EXCEPT !.pc = "manifest"]
    /\ UNCHANGED <<now, resolved, cb, payload>>

\* a missing manifest.json read as a manifest without entries
readManifestOrEmpty(f, tmpDir) ==
    LET manifestPath == join(tmpDir, <<"manifest.json">>)
    IN  IF IsFile(f, manifestPath) /\ f.files[manifestPath].t = "manifest"
        THEN [ok |-> TRUE, manifest |-> f.files[manifestPath].v]
        ELSE [ok |-> TRUE, manifest |-> [files |-> <<>>]]

\* the manifest.json of the extracted tree: [ok, manifest] or [ok, error]
readManifest(f, tmpDir) ==
    LET manifestPath == join(tmpDir, <<"manifest.json">>)
    IN  IF ~existsSync(f, manifestPath) THEN [ok |-> FALSE, error |-> "missing manifest"]
        ELSE IF ~IsFile(f, manifestPath) \/ f.files[manifestPath].t # "manifest"
        THEN [ok |-> FALSE, error |-> "unreadable manifest"]
        ELSE [ok |-> TRUE, manifest |-> f.files[manifestPath].v]

ReadManifest ==
    /\ rs.pc = "manifest"
    /\ LET got == readManifest(fs, rs.dir)
       IN  IF got.ok
           THEN /\ rs' = [rs EXCEPT !.pc = "copy", !.manifest = got.manifest, !.i = 1]
                /\ UNCHANGED fs
           ELSE RestoreThrows(fs, rs, got.error)
    /\ UNCHANGED <<now, resolved, cb, payload>>

\* the source and destination of a manifest entry
restoreSrcPath(tmpDir, file) ==
    join(IF file.relativeTo = "config" THEN join(tmpDir, <<"config", "opencode">>)
         ELSE join(tmpDir, <<"data", "opencode">>),
         file.path)
restoreDestPath(file) ==
    join(IF file.relativeTo = "config" THEN restoreConfigDir ELSE restoreDataDir, file.path)

\* a loop body that throws when the staged file of the entry is missing
restoreEntryStrict(f, tmpDir, file) ==
    LET srcPath == restoreSrcPath(tmpDir, file)
        destPath == restoreDestPath(file)
        f1 == mkdirSync(f, dirname(destPath))
    IN  IF ~CanMkdir(f, dirname(destPath)) THEN [ok |-> FALSE, fs |-> f, error |-> "conflict"]
        ELSE IF ~existsSync(f1, srcPath) THEN [ok |-> FALSE, fs |-> f1, error |-> "missing file"]
        ELSE IF ~CanCp(f1, srcPath, destPath) THEN [ok |-> FALSE, fs |-> f1, error |-> "conflict"]
        ELSE [ok |-> TRUE, fs |-> cpSync(f1, srcPath, destPath), copied |-> TRUE]

\* a loop body that copies the whole extracted category tree on every entry
restoreEntryByScan(f, tmpDir, file) ==
    LET srcPath == restoreSrcPath(tmpDir, [file EXCEPT !.path = <<".">>])
        destPath == restoreDestPath([file EXCEPT !.path = <<".">>])
        f1 == mkdirSync(f, dirname(destPath))
    IN  IF ~CanMkdir(f, dirname(destPath)) THEN [ok |-> FALSE, fs |-> f, error |-> "conflict"]
        ELSE IF ~existsSync(f1, srcPath) THEN [ok |-> TRUE, fs |-> f1, copied |-> FALSE]
        ELSE IF ~CanCp(f1, srcPath, destPath) THEN [ok |-> FALSE, fs |-> f1, error |-> "conflict"]
        ELSE [ok |-> TRUE, fs |-> cpSync(f1, srcPath, destPath), copied |-> TRUE]

\* the body of the restore loop for one manifest entry: the parent of the
\* destination is created first, then the staged file or directory is copied
\* when it exists. A directory that would replace a file (or the reverse) throws.
restoreEntry(f, tmpDir, file) ==
    LET srcPath == restoreSrcPath(tmpDir, file)
        destPath == restoreDestPath(file)
        f1 == mkdirSync(f, dirname(destPath))
    IN  IF ~CanMkdir(f, dirname(destPath)) THEN [ok |-> FALSE, fs |-> f, error |-> "conflict"]
        ELSE IF ~existsSync(f1, srcPath) THEN [ok |-> TRUE, fs |-> f1, copied |-> FALSE]
        ELSE IF ~CanCp(f1, srcPath, destPath) THEN [ok |-> FALSE, fs |-> f1, error |-> "conflict"]
        ELSE [ok |-> TRUE, fs |-> cpSync(f1, srcPath, destPath), copied |-> TRUE]

\* one turn of the restore loop; ioFault is a failure of the system call
RestoreFile ==
    /\ rs.pc = "copy" /\ rs.i <= Len(rs.manifest.files)
    /\ \E ioFault \in BOOLEAN :
         LET done == restoreEntry(fs, rs.dir, rs.manifest.files[rs.i])
         IN  IF ioFault THEN RestoreThrows(fs, rs, "io")
             ELSE IF done.ok
             THEN /\ fs' = done.fs
                  /\ rs' = [rs EXCEPT !.i = @ + 1,
                               !.skipped = IF done.copied THEN @ ELSE @ \cup {rs.i}]
             ELSE RestoreThrows(done.fs, rs, done.error)
    /\ UNCHANGED <<now, resolved, cb, payload>>

\* the end of the loop: the finally block, and handleRestore's success
RestoreFinish ==
    /\ rs.pc = "copy" /\ rs.i > Len(rs.manifest.files)
    /\ fs' = rmSync(fs, rs.dir)
    /\ rs' = [rs EXCEPT !.pc = "returned", !.exit = 0]
    /\ UNCHANGED <<now, resolved, cb, payload>>

\* handleRestore with the environment variable unset or empty
RestoreWithoutBundle ==
    /\ rs.pc = "idle" /\ cb.pc \in {"idle", "threw"} /\ payload = NoPayload
    /\ rs' = [rs EXCEPT !.pc = "exited", !.error = "not set", !.exit = 1]
    /\ UNCHANGED <<fs, now, resolved, cb, payload>>

(***************************************************************************)
(* The inputs of the bundle runs: resolved targets, the developer's        *)
(* machine, the machine the bundle is restored on, and bundles that were   *)
(* not produced by createBundle.                                           *)
(***************************************************************************)
MaxInclude == 2
MaxClock == 1

\* a filesystem from a set of files (path :> content pairs as a function)
FsOf(files) == [files |-> files, dirs |-> UNION {Ancestors(p) : p \in DOMAIN files}]

Without(files, gone) == [p \in DOMAIN files \ gone |-> files[p]]

localConfigJson ==
    JObj([plugin |-> JArr(<<"a@1">>), theme |-> JStr("dark")])

\* the developer's project and home directory
LocalFiles ==
    (join(ProjectPaths.agentDir, <<"review.md">>) :> Bytes("review"))
    @@ (join(ProjectPaths.agentDir, <<"notes.txt">>) :> Bytes("agent-notes"))
    @@ (join(ProjectPaths.commandDir, <<"fix.md">>) :> Bytes("fix"))
    @@ (join(ProjectPaths.skillDir, <<"s1", "SKILL.md">>) :> Bytes("skill"))
    @@ (join(ProjectPaths.skillDir, <<"README">>) :> Bytes("readme"))
    @@ (join(cwd, <<"notes.md">>) :> Bytes("notes"))
    @@ (join(cwd, <<"docs", "guide.txt">>) :> Bytes("guide"))
    @@ (join(OpenCodePaths.configDir, <<"antigravity-accounts.json">>) :> Bytes("accounts"))
    @@ (join(OpenCodePaths.configDir, <<"credentials.json">>) :> Bytes("credentials"))
    @@ (join(OpenCodePaths.dataDir, <<"auth.json">>) :> Bytes("auth"))
    @@ (OpenCodePaths.opencodeConfig :> Json(localConfigJson))

LocalFilesystems ==
    {FsOf(LocalFiles),
     FsOf([Without(LocalFiles, {join(OpenCodePaths.configDir, <<"credentials.json">>),
                                join(OpenCodePaths.configDir, <<"antigravity-accounts.json">>)})
              EXCEPT ![OpenCodePaths.opencodeConfig] = Bytes("not json")]),
     FsOf(Without(LocalFiles, {OpenCodePaths.opencodeConfig,
                               join(ProjectPaths.agentDir, <<"review.md">>),
                               join(ProjectPaths.agentDir, <<"notes.txt">>)})),
     \* an opencode.jsonc that holds the JSON text null
     FsOf([Without(LocalFiles, {join(ProjectPaths.skillDir, <<"s1", "SKILL.md">>)})
              EXCEPT ![OpenCodePaths.opencodeConfig] = Json(JNull)])}

\* the machine of the restore: empty, holding files of its own, or holding a
\* file where the bundle or restoreBundle wants a directory
CiFilesystems ==
    {FsOf(<<>>),
     FsOf((join(restoreConfigDir, <<"keep.json">>) :> Bytes("keep"))
          @@ (join(restoreDataDir, <<"auth.json">>) :> Bytes("old-auth"))
          @@ (join(restoreConfigDir, <<"agent", "old.md">>) :> Bytes("old-agent"))),
     FsOf((join(restoreConfigDir, <<"agent">>) :> Bytes("a file"))),
     FsOf((restoreDataDir :> Bytes("a file")))}

\* sequences over S of length at most n
SeqUpTo(S, n) == UNION {[1..k -> S] : k \in 0..n}

\* sync.include items: a string item has the same source and dest
IncludeItems ==
    {[source |-> <<"notes.md">>, dest |-> <<"notes.md">>],
     [source |-> <<"notes.md">>, dest |-> <<"auth.json">>],
     [source |-> <<"notes.md">>, dest |-> <<"..", "..", "..", "escape.md">>],
     [source |-> <<"docs">>, dest |-> <<"docs">>],
     [source |-> <<"missing.md">>, dest |-> <<"missing.md">>]}

\* an auth object with all its keys
AuthSpec(antigravity, auth, credentials, presets) ==
    ("antigravity-accounts" :> antigravity)
    @@ [auth |-> auth, credentials |-> credentials, presets |-> presets]

AuthChoices ==
    {AuthSpec(TRUE, TRUE, FALSE, <<>>),
     AuthSpec(FALSE, FALSE, FALSE, <<>>),
     AuthSpec(FALSE, FALSE, TRUE, <<"auth", "unknown">>),
     AuthSpec(TRUE, TRUE, TRUE, <<"credentials", "auth", "credentials">>),
     AuthSpec(FALSE, TRUE, FALSE, <<"unknown", "constructor", "other">>)}

ConfigChoices ==
    {[mode |-> "none"], [mode |-> "full"],
     MergeSpec(JArr(<<"b">>), Undefined, JStr("m"), Undefined)}

ResolvedTarget(name, auth, scan, configDir, dataDir, include, config) ==
    [name |-> name, repo |-> "o/r", environment |-> "copilot",
     secretName |-> "OPENCODE_AUTH_BUNDLE",
     sync |-> [auth |-> auth, config |-> config, agents |-> scan, skills |-> scan,
               commands |-> scan, opencodeConfigDir |-> configDir,
               opencodeDataDir |-> dataDir, include |-> include]]

\* targets that vary the include list
IncludeTargets ==
    {ResolvedTarget("t", AuthSpec(FALSE, a, FALSE, <<>>), FALSE, FALSE, FALSE, inc,
                    [mode |-> "none"]) :
        a \in BOOLEAN, inc \in SeqUpTo(IncludeItems, MaxInclude)}

\* targets that vary the switches
SwitchTargets ==
    {ResolvedTarget("t", a, scan, d = "config", d = "data", <<>>, c) :
        a \in AuthChoices, scan \in BOOLEAN, d \in {"none", "config", "data"},
        c \in ConfigChoices}

BundleTargets == IncludeTargets \cup SwitchTargets

\* an archive from its files, and the manifest of a bundle made elsewhere
Tarball(files) == [files |-> files, dirs |-> UNION {Ancestors(p) : p \in DOMAIN files}]
Entry(relativeTo, path) == [path |-> path, relativeTo |-> relativeTo]
ForeignManifest(files) ==
    Manifest(bundleManifest(files, [name |-> "ci", sync |-> [config |-> [mode |-> "none"]]], 0))

stagedReview == <<"config", "opencode", "agent", "review.md">> :> Bytes("review")
stagedAuth == <<"data", "opencode", "auth.json">> :> Bytes("auth")
twoEntries == <<Entry("config", <<"agent", "review.md">>), Entry("data", <<"auth.json">>)>>

\* what the environment variable of the restore command may hold
CraftedPayloads ==
    {\* a complete bundle
     Base64(Tarball(stagedReview @@ stagedAuth
                    @@ (<<"manifest.json">> :> ForeignManifest(twoEntries)))),
     \* a bundle whose manifest lists a file the archive lacks
     Base64(Tarball(stagedAuth
                    @@ (<<"manifest.json">> :> ForeignManifest(twoEntries)))),
     \* an archive with a file the manifest does not list
     Base64(Tarball(stagedReview @@ stagedAuth
                    @@ (<<"data", "opencode", "extra.txt">> :> Bytes("extra"))
                    @@ (<<"manifest.json">> :> ForeignManifest(twoEntries)))),
     \* a manifest entry that names a directory of the archive
     Base64(Tarball(stagedReview
                    @@ (<<"config", "opencode", "agent", "unlisted.md">> :> Bytes("unlisted"))
                    @@ (<<"manifest.json">> :>
                          ForeignManifest(<<Entry("config", <<"agent">>)>>)))),
     \* the bundle createBundle makes of the include {source: "notes.md",
     \* dest: "../escape.md"}: the file is staged beside the data directory
     Base64(Tarball((<<"data", "escape.md">> :> Bytes("notes"))
                    @@ (<<"manifest.json">> :>
                          ForeignManifest(<<Entry("data", <<"..", "escape.md">>)>>)))),
     \* an archive without manifest.json
     Base64(Tarball(stagedReview @@ stagedAuth)),
     \* a manifest.json that is not JSON
     Base64(Tarball(stagedAuth @@ (<<"manifest.json">> :> Bytes("garbage")))),
     \* text that is not an archive
     [t |-> "junk", v |-> 0]}

(***************************************************************************)
(* SpecBundle: a run of createBundle on the developer's machine, followed  *)
(* by the restore command on the same or on another machine; or the        *)
(* restore command alone, on whatever its environment variable holds.      *)
(***************************************************************************)
NoTarget == ResolvedTarget("", AuthSpec(FALSE, FALSE, FALSE, <<>>), FALSE, FALSE, FALSE, <<>>,
                           [mode |-> "none"])

BundleInit ==
    /\ MergeUnused /\ SyncUnused /\ ScratchUnused
    /\ now = 0 /\ cb = CbIdle /\ rs = RsIdle
    /\ \/ /\ fs \in LocalFilesystems
          /\ resolved \in BundleTargets
          /\ payload = NoPayload
       \/ /\ fs \in CiFilesystems
          /\ resolved = NoTarget
          /\ payload \in CraftedPayloads

\* the payload travels as a secret to the machine that runs the restore command
SwitchMachine ==
    /\ cb.pc = "returned" /\ rs.pc = "idle" /\ fs \notin CiFilesystems
    /\ fs' \in CiFilesystems
    /\ UNCHANGED <<now, resolved, cb, payload, rs>>

\* Date.now() advances between the runs
Tick ==
    /\ rs.pc = "idle" /\ cb.pc \in {"idle", "returned"} /\ now < MaxClock
    /\ now' = now + 1
    /\ UNCHANGED <<fs, resolved, cb, payload, rs>>

BundleNext ==
    \/ CreateBundleStart /\ UNCHANGED <<mergeVars, syncVars, scratchVars>>
    \/ StageFile /\ UNCHANGED <<mergeVars, syncVars, scratchVars>>
    \/ WriteBundleConfig /\ UNCHANGED <<mergeVars, syncVars, scratchVars>>
    \/ WriteManifest /\ UNCHANGED <<mergeVars, syncVars, scratchVars>>
    \/ ArchiveBundle /\ UNCHANGED <<mergeVars, syncVars, scratchVars>>
    \/ SwitchMachine /\ UNCHANGED <<mergeVars, syncVars, scratchVars>>
    \/ Tick /\ UNCHANGED <<mergeVars, syncVars, scratchVars>>
    \/ RestoreStart /\ UNCHANGED <<mergeVars, syncVars, scratchVars>>
    \/ ReadManifest /\ UNCHANGED <<mergeVars, syncVars, scratchVars>>
    \/ RestoreFile /\ UNCHANGED <<mergeVars, syncVars, scratchVars>>
    \/ RestoreFinish /\ UNCHANGED <<mergeVars, syncVars, scratchVars>>
    \/ RestoreWithoutBundle /\ UNCHANGED <<mergeVars, syncVars, scratchVars>>

SpecBundle == BundleInit /\ [][BundleNext]_vars

(***************************************************************************)
(* Claims about createBundle and restoreBundle.                            *)
(***************************************************************************)
CreateEnded == cb.pc \in {"returned", "threw"}
RestoreEnded == rs.pc \in {"returned", "threw"}

\* the manifest entries restoreBundle has read (none before the manifest is parsed)
ManifestEntries == IF rs.i > 0 THEN rs.manifest.files ELSE <<>>

\* the files of the machine outside the scratch directory of the restore
Outside(f) == {p \in DOMAIN f.files : rs.dir = <<>> \/ ~IsPrefix(rs.dir, p)}

\* p was created or overwritten since restoreBundle was called
Touched(p) == p \notin DOMAIN rs.before.files \/ rs.before.files[p] # fs.files[p]

UnderRoots(p) == IsPrefix(restoreConfigDir, p) \/ IsPrefix(restoreDataDir, p)

\* C2: whenever createBundle has returned or thrown, the staging directory it
\* created no longer exists.
C2_StagingRemoved == CreateEnded => ~existsSync(fs, cb.dir)

\* C3: whenever restoreBundle has returned or thrown after creating its scratch
\* directory (failed extraction, missing or unreadable manifest, failed copy,
\* success), the scratch directory no longer exists.
C3_ScratchRemoved == (RestoreEnded /\ rs.dir # <<>>) => ~existsSync(fs, rs.dir)

\* a copy failed after an earlier entry was copied, and the scratch directory is gone
C3_Witness ==
    /\ rs.pc = "threw" /\ rs.error = "conflict" /\ rs.i > 1
    /\ rs.dir # <<>> /\ ~existsSync(fs, rs.dir)

\* the archive of the payload holds no manifest.json
NoManifestInArchive ==
    /\ payload.t = "b64"
    /\ <<"manifest.json">> \notin DOMAIN payload.v.files \cup payload.v.dirs

\* no file under the config root or the data root was created, overwritten or deleted
RootsUntouched ==
    /\ \A p \in DOMAIN fs.files : UnderRoots(p) => ~Touched(p)
    /\ \A p \in DOMAIN rs.before.files : UnderRoots(p) => p \in DOMAIN fs.files

\* C7: when the extracted archive holds no manifest.json, restoreBundle throws
\* ("missing manifest"), the restore command exits with status 1, and no file
\* under the config root or the data root is created or overwritten.
C7_MissingManifestFails ==
    (NoManifestInArchive /\ rs.pc # "idle") =>
        /\ RootsUntouched
        /\ (rs.pc # "manifest" /\ rs.error \notin {"mkdir", "tar"}) =>
               (rs.pc = "threw" /\ rs.error = "missing manifest" /\ rs.exit = 1)

\* the archive was extracted on a machine with files of its own, and the
\* restore ended on the missing manifest
C7_Witness ==
    /\ NoManifestInArchive /\ rs.pc = "threw" /\ rs.error = "missing manifest"
    /\ join(restoreConfigDir, <<"keep.json">>) \in DOMAIN fs.files

\* the entries of the manifest the loop has copied: processed and not skipped
Copied == (1..(rs.i - 1)) \ rs.skipped

\* the path of an entry's staged file inside the archive, when it is inside
InArchive(file) == IsPrefix(rs.dir, restoreSrcPath(rs.dir, file))
ArchivePath(file) ==
    LET srcPath == restoreSrcPath(rs.dir, file)
    IN  SubSeq(srcPath, Len(rs.dir) + 1, Len(srcPath))

\* the copy of entry j wrote at or below the destination of entry k, or above it
Overlaps(j, k) ==
    LET dj == restoreDestPath(ManifestEntries[j])
        dk == restoreDestPath(ManifestEntries[k])
    IN  IsPrefix(dj, dk) \/ IsPrefix(dk, dj)

NothingDeleted == \A p \in Outside(rs.before) : p \in DOMAIN fs.files

\* C5 as stated: a file is created or overwritten at p only if some manifest
\* entry's category root joined with its path is p; nothing is deleted.
C5_OnlyListedPaths ==
    rs.pc \notin {"idle", "exited"} =>
        /\ \A p \in Outside(fs) :
              Touched(p) => \E k \in DOMAIN ManifestEntries :
                                restoreDestPath(ManifestEntries[k]) = p
        /\ NothingDeleted

\* C5, amended: a file is created or overwritten at p only if some manifest
\* entry's category root joined with its path is p or a directory above p (an
\* entry that names a directory of the archive is copied with all it holds);
\* nothing is deleted, and a file of the archive that no entry names or lies
\* above is never copied.
C5_OnlyListedPathsOrBelow ==
    rs.pc \notin {"idle", "exited"} =>
        /\ \A p \in Outside(fs) :
              Touched(p) => \E k \in DOMAIN ManifestEntries :
                                IsPrefix(restoreDestPath(ManifestEntries[k]), p)
        /\ NothingDeleted

\* restoreBundle returned on a machine with files of its own, from an archive
\* that holds a file the manifest does not list
C5_Witness ==
    /\ rs.pc = "returned" /\ Copied # {}
    /\ payload.v.files # <<>>
    /\ <<"data", "opencode", "extra.txt">> \in DOMAIN payload.v.files
    /\ join(restoreDataDir, <<"extra.txt">>) \notin DOMAIN fs.files
    /\ join(restoreConfigDir, <<"keep.json">>) \in DOMAIN fs.files
    /\ Touched(join(restoreDataDir, <<"auth.json">>))

\* createBundle returned a payload and restoreBundle returned after restoring it
RoundTripDone == cb.pc = "returned" /\ rs.pc = "returned"

\* a target path that stays inside its category directory
StaysInside(path) ==
    LET q == Normalize(<<"#">>, path) IN Len(q) > 1 /\ Head(q) = "#"
AllStayInside == \A k \in DOMAIN cb.files : StaysInside(cb.files[k].targetPath)

\* entry k of the collection is at its destination with its source's content
Restored(k) ==
    LET dest == restoreDestPath(Entry(cb.files[k].relativeTo, cb.files[k].targetPath))
    IN  dest \in DOMAIN fs.files /\ fs.files[dest] = cb.contents[k]

\* no later entry of the collection has the category and target path of entry k
LastOfItsPath(k) ==
    ~\E j \in DOMAIN cb.files :
        /\ j > k
        /\ cb.files[j].relativeTo = cb.files[k].relativeTo
        /\ Normalize(<<>>, cb.files[j].targetPath) = Normalize(<<>>, cb.files[k].targetPath)

\* C1 as stated (for targets whose target paths all stay inside their category
\* directory): after createBundle and restoreBundle of its payload, every
\* collected entry is at its destination with its source's content.
C1_RoundTripEveryEntry ==
    (RoundTripDone /\ AllStayInside) => \A k \in DOMAIN cb.files : Restored(k)

\* C1, amended: the same for every collected entry that no later entry of the
\* collection shares its category and target path with.
C1_RoundTripLastEntry ==
    (RoundTripDone /\ AllStayInside) =>
        \A k \in DOMAIN cb.files : LastOfItsPath(k) => Restored(k)

\* a bundle of several entries, two of them with the same category and path,
\* restored on another machine
C1_Witness ==
    /\ RoundTripDone /\ AllStayInside
    /\ Len(cb.files) >= 2
    /\ \E k \in DOMAIN cb.files : ~LastOfItsPath(k)
    /\ \E k \in DOMAIN cb.files : LastOfItsPath(k) /\ Restored(k)
    /\ join(cwd, <<"notes.md">>) \notin DOMAIN fs.files

\* createBundleDirectory is past buildBundleConfig and the write of its outcome,
\* and the staging tree is still in place
ConfigStaged == cb.pc \in {"manifest", "archive"}

\* the generated configuration file of the staging tree
stagedConfigPath == join(stagedConfigDir(cb.dir), <<"opencode.jsonc">>)
StagedConfigIs(content) ==
    IsFile(fs, stagedConfigPath) /\ fs.files[stagedConfigPath] = content

FullModeStaged == ConfigStaged /\ resolved.sync.config.mode = "full"

\* C14 as stated: for a target with config mode=full, whenever the local
\* opencode.jsonc exists, the configuration file generated into the bundle is
\* structurally equal to the content of the local file.
C14_FullShipsLocalFile ==
    (FullModeStaged /\ IsFile(fs, OpenCodePaths.opencodeConfig))
    => StagedConfigIs(fs.files[OpenCodePaths.opencodeConfig])

\* C14, amended: for a target with config mode=full, whenever the local
\* opencode.jsonc exists and parses as JSON (to an object), the generated
\* configuration file is structurally equal to its content; when the local file
\* is missing or does not parse, the generated configuration is the empty object.
C14_FullShipsParsedFile ==
    FullModeStaged
    => IF /\ IsFile(fs, OpenCodePaths.opencodeConfig)
          /\ fs.files[OpenCodePaths.opencodeConfig].t = "json"
       THEN IsPlainObject(fs.files[OpenCodePaths.opencodeConfig].v)
                => StagedConfigIs(fs.files[OpenCodePaths.opencodeConfig])
       ELSE StagedConfigIs(Json(JObj(EmptyObj)))

C14_Witness ==
    /\ FullModeStaged
    /\ IsFile(fs, OpenCodePaths.opencodeConfig)
    /\ fs.files[OpenCodePaths.opencodeConfig] = Json(localConfigJson)
    /\ StagedConfigIs(Json(localConfigJson))
    /\ Len(cb.manifestFiles) > 1

\* createBundleDirectory has written manifest.json into the staging tree
ManifestStaged == cb.pc = "archive"
StagedManifest == fs.files[join(cb.dir, <<"manifest.json">>)].v

SameEntry(a, b) == a.relativeTo = b.relativeTo /\ a.path = b.path

\* entry k of the manifest stems from an item of sync.include: the includes are
\* the last files of the collection
FromInclude(k) ==
    /\ k <= Len(cb.files)
    /\ k > Len(cb.files) - Len(collectIncludes(fs, resolved.sync.include))

\* C16 as stated: for every resolved target, no two entries of the manifest
\* have the same (relativeTo, path).
C16_UniqueEntries ==
    ManifestStaged =>
        \A i, j \in DOMAIN StagedManifest.files :
            i # j => ~SameEntry(StagedManifest.files[i], StagedManifest.files[j])

\* C16, amended: for every resolved target, two entries of the manifest have
\* the same (relativeTo, path) only when at least one of them stems from an
\* item of sync.include; the entries of presets, agents, skills, commands and
\* the generated configuration are pairwise different.
C16_UniqueButIncludes ==
    ManifestStaged =>
        \A i, j \in DOMAIN StagedManifest.files :
            (i # j /\ SameEntry(StagedManifest.files[i], StagedManifest.files[j]))
            => (FromInclude(i) \/ FromInclude(j))

\* a manifest of several entries from presets named twice, scans and the
\* generated configuration, without includes
C16_Witness ==
    /\ ManifestStaged
    /\ resolved.sync.auth["presets"] = <<"credentials", "auth", "credentials">>
    /\ resolved.sync.agents
    /\ resolved.sync.config.mode = "full"
    /\ Len(StagedManifest.files) >= 6
    /\ \A k \in DOMAIN StagedManifest.files : ~FromInclude(k)

\* the directory of the staging tree that holds the files of a category
categoryDir(relativeTo) ==
    IF relativeTo = "config" THEN stagedConfigDir(cb.dir) ELSE stagedDataDir(cb.dir)

\* the manifest lists the collected files in collection order, then the
\* generated configuration when there is one, and carries the config mode
ListsCollection(manifest) ==
    LET generated == IF Truthy(buildBundleConfig(fs, resolved))
                     THEN <<Entry("config", <<"opencode.jsonc">>)>> ELSE <<>>
    IN  /\ manifest.files =
              [k \in DOMAIN cb.files |->
                  Entry(cb.files[k].relativeTo, cb.files[k].targetPath)] \o generated
        /\ generated # <<>> => IsFile(fs, stagedConfigPath)
        /\ manifest.configMode = resolved.sync.config.mode
        /\ manifest.target = resolved.name

\* the entry names a file of the staging tree below the directory of its category
DenotesStagedFile(entry) ==
    LET path == join(categoryDir(entry.relativeTo), entry.path)
    IN  IsFile(fs, path) /\ IsPrefix(categoryDir(entry.relativeTo), path)

\* C17: the manifest written by createBundleDirectory has exactly one entry per
\* collected file, in collection order, with the file's target path and
\* category, followed by {opencode.jsonc, config} when a generated
\* configuration was written; every entry denotes a file written into the
\* staging tree under its category directory; configMode is the target's mode.
C17_ManifestComplete ==
    ManifestStaged =>
        /\ ListsCollection(StagedManifest)
        /\ \A k \in DOMAIN StagedManifest.files : DenotesStagedFile(StagedManifest.files[k])

\* createBundleDirectory has just called collectBundleFiles
JustCollected ==
    \/ cb.pc = "stage" /\ cb.i = 1
    \/ cb.pc = "threw" /\ cb.error = "collect"

\* a name that is no key of PRESETS
IsUnknownPreset(name) == name \notin DOMAIN PRESETS
IsKnownPreset(name) == name \in DOMAIN PRESETS
ListsUnknownPreset ==
    \E n \in DOMAIN resolved.sync.auth["presets"] :
        IsUnknownPreset(resolved.sync.auth["presets"][n])

\* the target without the unknown names of its preset list
WithoutUnknownPresets(tgt) ==
    [tgt EXCEPT !.sync.auth["presets"] = SelectSeq(@, IsKnownPreset)]

\* C18: when the set of presets to load contains unknown names,
\* collectBundleFiles does not fail; it emits a warning for each unknown name
\* and returns exactly the files of the known presets whose files exist, the
\* same list it would return if the unknown names had not been listed.
C18_UnknownPresetTolerated ==
    (JustCollected /\ ListsUnknownPreset) =>
        /\ cb.pc # "threw"
        /\ cb.warned = SelectSeq(presetsToLoad(resolved.sync.auth), IsUnknownPreset)
        /\ cb.files = collectBundleFiles(fs, WithoutUnknownPresets(resolved))

\* the files the presets to load name, known presets only, in order
RECURSIVE PresetCandidates(_)
PresetCandidates(names) ==
    IF names = <<>> THEN <<>>
    ELSE (IF IsKnownPreset(Head(names))
          THEN [n \in DOMAIN PRESETS[Head(names)] |->
                   LET file == PRESETS[Head(names)][n]
                   IN  BundleFile(join(IF file.type = "config" THEN OpenCodePaths.configDir
                                       ELSE OpenCodePaths.dataDir, file.path),
                                  file.path, file.type)]
          ELSE <<>>) \o PresetCandidates(Tail(names))

\* the files the items of sync.include name, in order
IncludeCandidates(include) ==
    [n \in DOMAIN include |->
        BundleFile(resolve(cwd, include[n].source), include[n].dest, "data")]

SourceExists(file) == existsSync(fs, file.sourcePath)

AllCandidates ==
    PresetCandidates(presetsToLoad(resolved.sync.auth))
    \o IncludeCandidates(resolved.sync.include)

\* collectBundleFiles was called for a target that names a missing preset file
\* or include source (and no preset name that makes the preset loop throw)
CollectedWithMissingSource ==
    /\ JustCollected
    /\ \A n \in DOMAIN resolved.sync.auth["presets"] :
           resolved.sync.auth["presets"][n] \notin ObjectPrototypeNames
    /\ \E n \in DOMAIN AllCandidates : ~SourceExists(AllCandidates[n])

\* C19: a preset file or an include source that does not exist on disk is left
\* out of the list collectBundleFiles returns, without an error; every other
\* item is still collected (the existing preset files lead the list and the
\* existing include sources end it, each in order), and every returned entry
\* has a source path that exists at collection time.
C19_MissingSourcesOmitted ==
    CollectedWithMissingSource =>
        LET presetFiles ==
                SelectSeq(PresetCandidates(presetsToLoad(resolved.sync.auth)), SourceExists)
            includeFiles ==
                SelectSeq(IncludeCandidates(resolved.sync.include), SourceExists)
            n == Len(cb.files)
        IN  /\ cb.pc = "stage"
            /\ n >= Len(presetFiles) + Len(includeFiles)
            /\ SubSeq(cb.files, 1, Len(presetFiles)) = presetFiles
            /\ SubSeq(cb.files, n - Len(includeFiles) + 1, n) = includeFiles
            /\ \A k \in (Len(presetFiles) + 1)..(n - Len(includeFiles)) :
                   IsPrefix(cwd, cb.files[k].sourcePath) \/ cb.files[k].targetPath = <<".">>
            /\ \A k \in DOMAIN cb.files : SourceExists(cb.files[k])

\* an include list whose first source is missing: the second item and the auth
\* preset are collected
C19_Witness ==
    /\ CollectedWithMissingSource
    /\ resolved.sync.include =
           <<[source |-> <<"missing.md">>, dest |-> <<"missing.md">>],
             [source |-> <<"notes.md">>, dest |-> <<"notes.md">>]>>
    /\ resolved.sync.auth["auth"]
    /\ cb.files =
           <<BundleFile(join(OpenCodePaths.dataDir, <<"auth.json">>), <<"auth.json">>, "data"),
             BundleFile(join(cwd, <<"notes.md">>), <<"notes.md">>, "data")>>

\* the collection holds the entry of a whole directory: opencodeConfigDir or
\* opencodeDataDir is enabled and the root existed
IsWholeDirectory(file) == file.targetPath = <<".">>
WholeDirectoryCollected == \E k \in DOMAIN cb.files : IsWholeDirectory(cb.files[k])

\* createBundle threw while staging the entry of a whole directory
ThrewAtWholeDirectory ==
    /\ cb.pc = "threw" /\ cb.error = "copy"
    /\ IsWholeDirectory(cb.files[cb.i])

\* the archive holds every file of the local tree below root under the category
CarriesTree(archive, root, relativeTo) ==
    \A r \in TreeFiles(fs, root) :
        LET staged == <<relativeTo, "opencode">> \o r
        IN  staged \in DOMAIN archive.files /\ archive.files[staged] = fs.files[root \o r]

\* C20: when opencodeConfigDir (opencodeDataDir) is enabled and the local
\* configuration root (data root) exists, createBundle succeeds and the bundle
\* carries the entire directory tree of that root under the config (data)
\* category. Stated here for runs that do not fail at another entry or step,
\* which only narrows the claim.
C20_WholeDirectoryBundled ==
    (CreateEnded /\ WholeDirectoryCollected) =>
        /\ ~ThrewAtWholeDirectory
        /\ (cb.pc = "returned" /\ fs \in LocalFilesystems) =>
               \A k \in DOMAIN cb.files :
                   IsWholeDirectory(cb.files[k]) =>
                       CarriesTree(FromBase64(payload), cb.files[k].sourcePath,
                                   cb.files[k].relativeTo)

\* the step of collectBundleFiles an entry stems from, told by its source
IsAgentFile(file) == IsPrefix(ProjectPaths.agentDir, file.sourcePath)
IsSkillFile(file) == IsPrefix(ProjectPaths.skillDir, file.sourcePath)
IsCommandFile(file) == IsPrefix(ProjectPaths.commandDir, file.sourcePath)
IsIncludeFile(file) ==
    /\ IsPrefix(cwd, file.sourcePath)
    /\ ~IsAgentFile(file) /\ ~IsSkillFile(file) /\ ~IsCommandFile(file)

\* the position of the step in the order the claim states: presets, agents
\* and commands, skills, whole directories, includes
StatedStep(file) ==
    IF IsAgentFile(file) \/ IsCommandFile(file) THEN 2
    ELSE IF IsSkillFile(file) THEN 3
    ELSE IF IsWholeDirectory(file) THEN 4
    ELSE IF IsIncludeFile(file) THEN 5
    ELSE 1

\* the position of the step in the order of the code: presets, agents,
\* skills, commands, whole directories, includes
CodeStep(file) ==
    IF IsAgentFile(file) THEN 2
    ELSE IF IsSkillFile(file) THEN 3
    ELSE IF IsCommandFile(file) THEN 4
    ELSE IF IsWholeDirectory(file) THEN 5
    ELSE IF IsIncludeFile(file) THEN 6
    ELSE 1

CollectionReturned == cb.pc = "stage" /\ cb.i = 1

\* C24 as stated: the list returned by collectBundleFiles is ordered as preset
\* files, Markdown files of the agents and of the commands directory, SKILL.md
\* files, whole-directory entries, include entries; in particular every
\* command file precedes every skill file.
C24_CommandsBeforeSkills ==
    CollectionReturned =>
        \A i, j \in DOMAIN cb.files :
            i < j => StatedStep(cb.files[i]) <= StatedStep(cb.files[j])

\* C24, amended: the list is ordered as preset files, Markdown files of the
\* agents directory, SKILL.md files of the skills, Markdown files of the
\* commands directory, whole-directory entries, include entries; every skill
\* file precedes every command file, and the list only grows: the entries of
\* each scan are all in the list, as the scan produced them.
C24_SkillsBeforeCommands ==
    CollectionReturned =>
        /\ \A i, j \in DOMAIN cb.files :
               i < j => CodeStep(cb.files[i]) <= CodeStep(cb.files[j])
        /\ resolved.sync.agents =>
               SelectSeq(cb.files, IsAgentFile)
                   = collectMarkdownFiles(fs, ProjectPaths.agentDir, "agent")
        /\ resolved.sync.commands =>
               SelectSeq(cb.files, IsCommandFile)
                   = collectMarkdownFiles(fs, ProjectPaths.commandDir, "command")
        /\ (resolved.sync.skills /\ existsSync(fs, ProjectPaths.skillDir)) =>
               SelectSeq(cb.files, IsSkillFile)
                   = collectSkills(fs, Listing(readdirSync(fs, ProjectPaths.skillDir)))

\* presets, an agent file, a skill file and a command file, in this order
C24_Witness ==
    /\ CollectionReturned
    /\ \E i, j, k, l \in DOMAIN cb.files :
           /\ i < j /\ j < k /\ k < l
           /\ CodeStep(cb.files[i]) = 1
           /\ IsAgentFile(cb.files[j])
           /\ IsSkillFile(cb.files[k])
           /\ IsCommandFile(cb.files[l])

\* C27: for every manifest, also one built from include entries whose
\* destination holds ".." segments or is an absolute path, every file that
\* restoreBundle creates or overwrites lies under the local configuration root
\* or under the local data root.
C27_RestoreInsideRoots ==
    rs.pc \notin {"idle", "exited"} =>
        \A p \in Outside(fs) : Touched(p) => UnderRoots(p)

\* the staging tree holds the generated configuration, and the manifest
\* entries collected so far name it
GeneratedConfigEmitted ==
    /\ IsFile(fs, stagedConfigPath)
    /\ \E k \in DOMAIN cb.manifestFiles :
           cb.manifestFiles[k] = [path |-> <<"opencode.jsonc">>, relativeTo |-> "config"]

\* C28: for every resolved target and every state of the local configuration
\* file (missing, unparsable or parsed), the staging tree holds a generated
\* config/opencode/opencode.jsonc with the manifest entry {opencode.jsonc,
\* config} if and only if the target's config mode is full or merge.
C28_ConfigEmittedUnlessNone ==
    ConfigStaged =>
        (GeneratedConfigEmitted <=> resolved.sync.config.mode \in {"full", "merge"})

(***************************************************************************)
(* config.ts: the sync configuration and the resolution of its targets.    *)
(* An optional value is <<>> when absent and <<v>> when present. A target  *)
(* name is the sequence of its characters. A configuration is a record     *)
(* [names, targets, defaults]: names lists the keys of "targets" in the    *)
(* order the file declares them.                                           *)
(***************************************************************************)
None == <<>>
Some(x) == <<x>>

\* a ?? b
Coalesce(a, b) == IF a # None THEN a ELSE b

\* mutant of SpreadOver: the properties of a win over those of b
SpreadUnder(a, b) == [k \in DOMAIN a \cup DOMAIN b |-> IF k \in DOMAIN a THEN a[k] ELSE b[k]]

\* {...a, ...b}
SpreadOver(a, b) == [k \in DOMAIN a \cup DOMAIN b |-> IF k \in DOMAIN b THEN b[k] ELSE a[k]]

DEFAULTS ==
    [environment |-> "copilot",
     secretName |-> "OPENCODE_AUTH_BUNDLE",
     sync |-> [auth |-> ("antigravity-accounts" :> TRUE) @@ [auth |-> TRUE, credentials |-> FALSE],
               config |-> [mode |-> "none"],
               agents |-> TRUE, skills |-> TRUE, commands |-> TRUE,
               opencodeConfigDir |-> FALSE, opencodeDataDir |-> FALSE,
               include |-> <<>>]]

CONFIG_FILENAME == <<"opencode-sync.json">>
CONFIG_FILENAME_JSONC == <<"opencode-sync.jsonc">>

getConfigSearchPaths ==
    <<join(cwd, CONFIG_FILENAME),
      join(cwd, CONFIG_FILENAME_JSONC),
      join(cwd, <<".opencode">> \o CONFIG_FILENAME),
      join(cwd, <<".opencode">> \o CONFIG_FILENAME_JSONC),
      join(cwd, <<".config">> \o CONFIG_FILENAME),
      join(cwd, <<".config">> \o CONFIG_FILENAME_JSONC),
      join(homedir, <<".config", "opencode-sync">> \o CONFIG_FILENAME),
      join(homedir, <<".config", "opencode-sync">> \o CONFIG_FILENAME_JSONC),
      join(homedir, <<".config", "opencode">> \o CONFIG_FILENAME),
      join(homedir, <<".config", "opencode">> \o CONFIG_FILENAME_JSONC),
      join(homedir, CONFIG_FILENAME),
      join(homedir, CONFIG_FILENAME_JSONC)>>

\* the first path of the list that exists, as an optional path
firstExisting(f, paths) ==
    LET found == {n \in DOMAIN paths : existsSync(f, paths[n])}
    IN  IF found = {} THEN None
        ELSE Some(paths[CHOOSE n \in found : \A m \in found : n <= m])

\* mutant of findConfigFile: an explicit path that does not exist falls back to the list
findConfigFileWithFallback(f, explicitPath) ==
    IF explicitPath # None /\ explicitPath[1] # <<>>
          /\ existsSync(f, resolve(cwd, explicitPath[1]))
    THEN Some(resolve(cwd, explicitPath[1]))
    ELSE firstExisting(f, getConfigSearchPaths)

\* findConfigFile(cwd, explicitPath): an optional path. "if (explicitPath)" is
\* false for a missing argument and for the empty string
findConfigFile(f, explicitPath) ==
    IF explicitPath # None /\ explicitPath[1] # <<>>
    THEN IF existsSync(f, resolve(cwd, explicitPath[1])) THEN Some(resolve(cwd, explicitPath[1]))
         ELSE None
    ELSE firstExisting(f, getConfigSearchPaths)

\* spec?.name for an optional spec
Field(spec, name) == IF spec = None THEN None ELSE spec[1][name]

\* the object an optional value spreads: nothing when it is absent
Spreadable(o) == IF o = None THEN <<>> ELSE o[1]

\* the properties of a ConfigSync object as they are read: undefined when absent
ReadConfigSync(obj) ==
    [k \in {"mode", "plugins", "providers", "model", "extra"} |->
        IF k \in DOMAIN obj THEN obj[k] ELSE Undefined]

mergeSyncSpec(spec, defaults) ==
    LET mergedAuth == SpreadOver(SpreadOver(DEFAULTS.sync.auth,
                                            Spreadable(Field(defaults, "auth"))),
                                 Spreadable(Field(spec, "auth")))
        mergedConfig == SpreadOver(SpreadOver(DEFAULTS.sync.config,
                                              Spreadable(Field(defaults, "config"))),
                                   Spreadable(Field(spec, "config")))
        pick(name) == Coalesce(Field(spec, name),
                               Coalesce(Field(defaults, name), Some(DEFAULTS.sync[name])))[1]
    IN  [auth |-> mergedAuth,
         config |-> ReadConfigSync(mergedConfig),
         agents |-> pick("agents"),
         skills |-> pick("skills"),
         commands |-> pick("commands"),
         opencodeConfigDir |-> pick("opencodeConfigDir"),
         opencodeDataDir |-> pick("opencodeDataDir"),
         include |-> pick("include")]

\* resolveTarget(name, config): an optional ResolvedTarget
resolveTarget(name, config) ==
    IF name \notin DOMAIN config.targets THEN None
    ELSE LET target == config.targets[name]
             defaults == config.defaults
         IN  Some([name |-> name,
                   repo |-> target.repo,
                   environment |-> Coalesce(target.environment,
                                            Coalesce(Field(defaults, "environment"),
                                                     Some(DEFAULTS.environment)))[1],
                   secretName |-> Coalesce(target.secretName,
                                           Coalesce(Field(defaults, "secretName"),
                                                    Some(DEFAULTS.secretName)))[1],
                   sync |-> mergeSyncSpec(target.sync, Field(defaults, "sync"))])

\* Object.keys: the keys that are array indices ("0", "7", "10": digits without
\* a leading zero) come first, in ascending numeric order; the others follow
\* in the order of their creation
Digits == <<"0", "1", "2", "3", "4", "5", "6", "7", "8", "9">>
IsArrayIndex(name) ==
    /\ name # <<>>
    /\ \A n \in DOMAIN name : \E d \in DOMAIN Digits : Digits[d] = name[n]
    /\ (Len(name) = 1 \/ name[1] # "0")

RECURSIVE IndexValue(_)
IndexValue(name) ==
    IF name = <<>> THEN 0
    ELSE 10 * IndexValue(SubSeq(name, 1, Len(name) - 1))
         + (CHOOSE d \in DOMAIN Digits : Digits[d] = name[Len(name)]) - 1

RECURSIVE Ascending(_)
Ascending(S) ==
    IF S = {} THEN <<>>
    ELSE LET least == CHOOSE x \in S : \A y \in S : IndexValue(x) <= IndexValue(y)
         IN  <<least>> \o Ascending(S \ {least})

ObjectKeys(names) ==
    LET IsNotIndex(name) == ~IsArrayIndex(name)
    IN  Ascending({names[n] : n \in {n \in DOMAIN names : IsArrayIndex(names[n])}})
        \o SelectSeq(names, IsNotIndex)

RECURSIVE resolveEach(_, _)
resolveEach(names, config) ==
    IF names = <<>> THEN <<>>
    ELSE resolveTarget(Head(names), config) \o resolveEach(Tail(names), config)

\* resolveAllTargets(config)
resolveAllTargets(config) == resolveEach(ObjectKeys(config.names), config)

(***************************************************************************)
(* github.ts: syncToGitHub. gh tells for every command of the gh CLI       *)
(* whether it exits with status 0. The result is [ok, calls]: calls lists  *)
(* the commands that were run.                                             *)
(***************************************************************************)
GhCommands == {"auth status", "repo view", "api environment", "api put environment",
               "secret set"}

\* mutant of syncToGitHub: the dryRun option is ignored
syncToGitHubForReal(target, base64Bundle, dryRun, gh) ==
    IF ~gh["auth status"]
    THEN [ok |-> FALSE, calls |-> <<"auth status">>, error |-> "checkGhCli"]
    ELSE IF ~gh["repo view"]
         THEN [ok |-> FALSE, calls |-> <<"auth status", "repo view">>,
               error |-> "checkRepoAccess"]
    ELSE LET checked == <<"auth status", "repo view", "api environment">>
             ensured == IF gh["api environment"] THEN checked
                        ELSE Append(checked, "api put environment")
         IN  IF ~gh["api environment"] /\ ~gh["api put environment"]
             THEN [ok |-> FALSE, calls |-> ensured, error |-> "ensureEnvironment"]
             ELSE [ok |-> gh["secret set"], calls |-> Append(ensured, "secret set"),
                   error |-> IF gh["secret set"] THEN "none" ELSE "setEnvironmentSecret"]

\* mutant of syncToGitHub: the secret is written before the environment is
\* looked up, and a failed repository check is tried again
syncToGitHubOutOfOrder(target, base64Bundle, dryRun, gh) ==
    IF dryRun THEN [ok |-> TRUE, calls |-> <<>>, error |-> "none"]
    ELSE IF ~gh["auth status"]
         THEN [ok |-> FALSE, calls |-> <<"auth status">>, error |-> "checkGhCli"]
    ELSE IF ~gh["repo view"]
         THEN [ok |-> FALSE, calls |-> <<"auth status", "repo view", "repo view">>,
               error |-> "checkRepoAccess"]
    ELSE [ok |-> gh["secret set"],
          calls |-> <<"auth status", "repo view", "secret set", "api environment">>,
          error |-> IF gh["secret set"] THEN "none" ELSE "setEnvironmentSecret"]

syncToGitHub(target, base64Bundle, dryRun, gh) ==
    IF dryRun THEN [ok |-> TRUE, calls |-> <<>>, error |-> "none"]
    ELSE IF ~gh["auth status"]
         THEN [ok |-> FALSE, calls |-> <<"auth status">>, error |-> "checkGhCli"]
    ELSE IF ~gh["repo view"]
         THEN [ok |-> FALSE, calls |-> <<"auth status", "repo view">>,
               error |-> "checkRepoAccess"]
    ELSE LET checked == <<"auth status", "repo view", "api environment">>
             ensured == IF gh["api environment"] THEN checked
                        ELSE Append(checked, "api put environment")
         IN  IF ~gh["api environment"] /\ ~gh["api put environment"]
             THEN [ok |-> FALSE, calls |-> ensured, error |-> "ensureEnvironment"]
             ELSE [ok |-> gh["secret set"], calls |-> Append(ensured, "secret set"),
                   error |-> IF gh["secret set"] THEN "none" ELSE "setEnvironmentSecret"]

(***************************************************************************)
(* cli.ts: handleSync, the sync command. sy.target is the optional target  *)
(* argument, sy.dryRun the --dry-run flag.                                 *)
(***************************************************************************)
\* SyncConfigSchema.parse: every target has a repo "owner/name" and a sync object
SchemaAccepts(config) ==
    \A name \in DOMAIN config.targets :
        /\ Len(config.targets[name].repo) = 2
        /\ config.targets[name].sync # None

SyncConfigFile(config) == [t |-> "syncconfig", v |-> config]

\* handleSync up to the loop over the targets
SyncStart ==
    /\ sy.pc = "idle"
    /\ LET configPath == findConfigFile(fs, sy.config)
           found == [sy EXCEPT !.configPath = configPath]
           exits == [found EXCEPT !.pc = "exited", !.exit = 1]
       IN  IF configPath = None THEN sy' = exits
           ELSE IF ~IsFile(fs, configPath[1]) \/ fs.files[configPath[1]].t # "syncconfig"
           THEN sy' = exits
           ELSE LET config == fs.files[configPath[1]].v
                    targets == IF sy.target # None THEN resolveTarget(sy.target[1], config)
                               ELSE resolveAllTargets(config)
                IN  IF ~SchemaAccepts(config) \/ Len(targets) = 0 THEN sy' = exits
                    ELSE IF sy.dryRun
                    THEN sy' = [found EXCEPT !.pc = "loop", !.targets = targets, !.i = 1]
                    ELSE \E ghCheck \in BOOLEAN :
                           sy' = IF ghCheck
                                 THEN [found EXCEPT !.pc = "loop", !.targets = targets,
                                                    !.i = 1, !.ghUsed = {"auth status"}]
                                 ELSE [exits EXCEPT !.ghUsed = {"auth status"}]
    /\ UNCHANGED <<fs, now, resolved, cb, payload, rs>>

\* the loop takes its next target and calls createBundle
SyncBeginTarget ==
    /\ sy.pc = "loop" /\ sy.i <= Len(sy.targets)
    /\ resolved' = sy.targets[sy.i]
    /\ cb' = CbIdle
    /\ payload' = NoPayload
    /\ sy' = [sy EXCEPT !.pc = "bundle", !.calls = <<>>, !.exits = <<>>, !.result = None]
    /\ UNCHANGED <<fs, now, rs>>

\* createBundle returned: syncToGitHub, and the tally
SyncTransport ==
    /\ sy.pc = "bundle" /\ cb.pc = "returned"
    /\ \E gh \in [GhCommands -> BOOLEAN] :
         LET result == syncToGitHub(resolved, payload, sy.dryRun, gh)
         IN  sy' = [sy EXCEPT !.pc = "loop", !.i = @ + 1,
                       !.success = IF result.ok THEN @ + 1 ELSE @,
                       !.failed = IF result.ok THEN @ ELSE @ + 1,
                       !.processed = Append(@, resolved.name),
                       !.calls = result.calls,
                       !.exits = [n \in DOMAIN result.calls |-> gh[result.calls[n]]],
                       !.result = Some([ok |-> result.ok, error |-> result.error]),
                       !.ghUsed = @ \cup {result.calls[n] : n \in DOMAIN result.calls}]
    /\ UNCHANGED <<fs, now, resolved, cb, payload, rs>>

\* a loop that ends at the first target whose bundle cannot be built
SyncBundleFailedStops ==
    /\ sy.pc = "bundle" /\ cb.pc = "threw"
    /\ sy' = [sy EXCEPT !.pc = "loop", !.i = Len(sy.targets) + 1, !.failed = @ + 1,
                  !.processed = Append(@, resolved.name)]
    /\ UNCHANGED <<fs, now, resolved, cb, payload, rs>>

\* createBundle threw: the catch block counts the target as failed
SyncBundleFailed ==
    /\ sy.pc = "bundle" /\ cb.pc = "threw"
    /\ sy' = [sy EXCEPT !.pc = "loop", !.i = @ + 1, !.failed = @ + 1,
                  !.processed = Append(@, resolved.name)]
    /\ UNCHANGED <<fs, now, resolved, cb, payload, rs>>

\* after the loop: process.exit(failed > 0 ? 1 : 0)
SyncFinish ==
    /\ sy.pc = "loop" /\ sy.i > Len(sy.targets)
    /\ sy' = [sy EXCEPT !.pc = "exited", !.exit = IF sy.failed > 0 THEN 1 ELSE 0]
    /\ UNCHANGED <<fs, now, resolved, cb, payload, rs>>

\* Date.now() advances between two targets
ClockAdvances ==
    /\ sy.pc = "loop" /\ now < MaxClock
    /\ now' = now + 1
    /\ UNCHANGED <<fs, resolved, cb, payload, rs, sy>>

(***************************************************************************)
(* SpecSync: one run of the sync command on the developer's machine.       *)
(***************************************************************************)
MaxTargets == 2

\* the target names "p", "10" and "2"
TargetNames == {<<"p">>, <<"1", "0">>, <<"2">>}

\* the orders in which a configuration file can declare some of the names
Declarations ==
    {names \in SeqUpTo(TargetNames, MaxTargets) :
        \A m, n \in DOMAIN names : m # n => names[m] # names[n]}

EmptySyncSpec ==
    [auth |-> None, config |-> None, agents |-> None, skills |-> None, commands |-> None,
     opencodeConfigDir |-> None, opencodeDataDir |-> None, include |-> None]

TargetConfig(repo, sync) ==
    [repo |-> repo, environment |-> None, secretName |-> None, sync |-> sync]

\* a target whose bundle can be built, and one whose include names a directory
TargetConfigs ==
    {TargetConfig(<<"o", "r">>, Some(EmptySyncSpec)),
     TargetConfig(<<"o", "r">>,
                  Some([EmptySyncSpec EXCEPT
                           !.include = Some(<<[source |-> <<"docs">>, dest |-> <<"docs">>]>>)]))}

SyncConfig(names, targets, defaults) ==
    [names |-> names, targets |-> targets, defaults |-> defaults]

SomeDefaults ==
    Some([environment |-> Some("ci"), secretName |-> None,
          sync |-> Some([EmptySyncSpec EXCEPT !.auth = Some([auth |-> FALSE]),
                                              !.agents = Some(FALSE)])])

BatchConfigs ==
    {SyncConfig(names, targets, None) :
        names \in Declarations,
        targets \in UNION {[{names[n] : n \in DOMAIN names} -> TargetConfigs] :
                              names \in Declarations}}

OtherConfigs ==
    {SyncConfig(<<<<"p">>>>, [n \in {<<"p">>} |-> cfg], SomeDefaults) : cfg \in TargetConfigs}
    \cup {SyncConfig(<<<<"p">>>>,
                     [n \in {<<"p">>} |-> TargetConfig(<<"no-owner">>, Some(EmptySyncSpec))],
                     None)}

\* the layers of sync.auth a configuration file can declare: none, or an object
\* over the keys auth and credentials
AuthLayers == {None} \cup {Some(f) : f \in ObjectsOver({"auth", "credentials"}, BOOLEAN)}

\* the layers of sync.config a configuration file can declare
ConfigLayers ==
    {None, Some([mode |-> "full"]), Some([mode |-> "merge", model |-> JStr("m")]),
     Some([model |-> JStr("d")])}

\* one target "p" and declared defaults, with a layer of auth and of config in each
LayeredConfig(defaultsAuth, targetAuth, defaultsConfig, targetConfig) ==
    SyncConfig(<<<<"p">>>>,
               [n \in {<<"p">>} |->
                   TargetConfig(<<"o", "r">>,
                                Some([EmptySyncSpec EXCEPT !.auth = targetAuth,
                                                           !.config = targetConfig]))],
               Some([environment |-> None, secretName |-> None,
                     sync |-> Some([EmptySyncSpec EXCEPT !.auth = defaultsAuth,
                                                         !.config = defaultsConfig])]))

LayeredConfigs ==
    {LayeredConfig(da, ta, None, None) : da \in AuthLayers, ta \in AuthLayers}
    \cup {LayeredConfig(None, None, dc, tc) : dc \in ConfigLayers, tc \in ConfigLayers}

WellFormed(config) == DOMAIN config.targets = {config.names[n] : n \in DOMAIN config.names}

\* the developer's machine of the sync runs
SyncLocalFiles ==
    (join(OpenCodePaths.dataDir, <<"auth.json">>) :> Bytes("auth"))
    @@ (join(cwd, <<"notes.md">>) :> Bytes("notes"))
    @@ (join(cwd, <<"docs", "guide.txt">>) :> Bytes("guide"))

WithConfigFile(content) == FsOf(SyncLocalFiles @@ (join(cwd, CONFIG_FILENAME) :> content))

\* the number of search locations that hold a configuration file
MaxPlaced == 2

\* which of the search locations hold a file
SearchPlacements ==
    {S \in SUBSET {getConfigSearchPaths[n] : n \in DOMAIN getConfigSearchPaths} :
        Cardinality(S) <= MaxPlaced}

\* the --config argument: none, the empty string, a relative path, a relative
\* path with "..", an absolute path that is also a search location
ExplicitPaths ==
    {None, Some(<<>>), Some(<<"custom.json">>),
     Some(<<".config", "..", "custom.json">>),
     Some(<<"/", "home", "opencode-sync.json">>)}

PlainConfig ==
    SyncConfig(<<<<"p">>>>,
               [n \in {<<"p">>} |-> TargetConfig(<<"o", "r">>, Some(EmptySyncSpec))], None)

\* the developer's machine with configuration files at the places of S, and at
\* custom.json when custom is set
WithConfigFilesAt(S, custom) ==
    FsOf(SyncLocalFiles
         @@ [p \in S \cup (IF custom THEN {join(cwd, <<"custom.json">>)} ELSE {}) |->
                SyncConfigFile(PlainConfig)])

SyncInit ==
    /\ MergeUnused /\ ScratchUnused
    /\ now = 0 /\ resolved = NoTarget /\ cb = CbIdle /\ payload = NoPayload /\ rs = RsIdle
    /\ \/ \E config \in BatchConfigs, dryRun \in BOOLEAN :
            /\ WellFormed(config)
            /\ fs = WithConfigFile(SyncConfigFile(config))
            /\ sy = [SyIdle EXCEPT !.dryRun = dryRun]
       \/ \E config \in OtherConfigs \cup LayeredConfigs, dryRun \in BOOLEAN :
            /\ fs = WithConfigFile(SyncConfigFile(config))
            /\ sy = [SyIdle EXCEPT !.dryRun = dryRun]
       \/ \E target \in {<<"p">>, <<"2">>}, dryRun \in BOOLEAN :
            /\ fs = WithConfigFile(SyncConfigFile(
                       SyncConfig(<<<<"p">>, <<"1", "0">>>>,
                                  [n \in {<<"p">>, <<"1", "0">>} |->
                                      TargetConfig(<<"o", "r">>, Some(EmptySyncSpec))],
                                  None)))
            /\ sy = [SyIdle EXCEPT !.target = Some(target), !.dryRun = dryRun]
       \/ /\ fs \in {FsOf(SyncLocalFiles), WithConfigFile(Bytes("not json"))}
          /\ sy = SyIdle
       \/ \E S \in SearchPlacements, custom \in BOOLEAN, explicitPath \in ExplicitPaths :
            /\ fs = WithConfigFilesAt(S, custom)
            /\ sy = [SyIdle EXCEPT !.dryRun = TRUE, !.config = explicitPath]

SyncNext ==
    \/ SyncStart /\ UNCHANGED <<mergeVars, scratchVars>>
    \/ SyncBeginTarget /\ UNCHANGED <<mergeVars, scratchVars>>
    \/ sy.pc = "bundle" /\ CreateBundleStart /\ UNCHANGED <<mergeVars, syncVars, scratchVars>>
    \/ sy.pc = "bundle" /\ StageFile /\ UNCHANGED <<mergeVars, syncVars, scratchVars>>
    \/ sy.pc = "bundle" /\ WriteBundleConfig /\ UNCHANGED <<mergeVars, syncVars, scratchVars>>
    \/ sy.pc = "bundle" /\ WriteManifest /\ UNCHANGED <<mergeVars, syncVars, scratchVars>>
    \/ sy.pc = "bundle" /\ ArchiveBundle /\ UNCHANGED <<mergeVars, syncVars, scratchVars>>
    \/ SyncTransport /\ UNCHANGED <<mergeVars, scratchVars>>
    \/ SyncBundleFailed /\ UNCHANGED <<mergeVars, scratchVars>>
    \/ SyncFinish /\ UNCHANGED <<mergeVars, scratchVars>>
    \/ ClockAdvances /\ UNCHANGED <<mergeVars, scratchVars>>

SpecSync == SyncInit /\ [][SyncNext]_vars

(***************************************************************************)
(* Claims about the sync command.                                          *)
(***************************************************************************)
\* the configuration file of the run holds a configuration the schema accepts
HasValidConfig ==
    /\ sy.configPath # None
    /\ IsFile(fs, sy.configPath[1])
    /\ fs.files[sy.configPath[1]].t = "syncconfig"
    /\ SchemaAccepts(fs.files[sy.configPath[1]].v)
LoadedConfig == fs.files[sy.configPath[1]].v

BatchRun == sy.target = None /\ HasValidConfig

\* C4 as stated: a batch run processes every declared target once, in the order
\* of declaration, whatever fails; success + failed is the number of targets
\* and the exit status is non-zero exactly when failed > 0.
C4_DeclarationOrder ==
    (BatchRun /\ sy.pc = "exited") =>
        /\ sy.processed = LoadedConfig.names
        /\ sy.success + sy.failed = Len(LoadedConfig.names)
        /\ (sy.exit # 0 <=> sy.failed > 0)

\* C4, amended: a batch run that reaches the loop (at least one target is
\* declared and, unless --dry-run is given, the gh check passes) processes every
\* declared target once, one at a time in the order of Object.keys, whatever
\* fails; success + failed is the number of targets and the exit status is 1
\* when failed > 0 and 0 otherwise. A run that does not reach the loop processes
\* nothing and exits with status 1.
C4_ObjectKeysOrder ==
    BatchRun =>
        LET keys == ObjectKeys(LoadedConfig.names)
        IN  /\ sy.pc \in {"loop", "bundle"} =>
                 /\ sy.i \in 1..(Len(keys) + 1)
                 /\ sy.processed = SubSeq(keys, 1, sy.i - 1)
                 /\ sy.success + sy.failed = sy.i - 1
                 /\ sy.pc = "bundle" => resolved.name = keys[sy.i]
            /\ sy.pc = "exited" =>
                 IF sy.i = 0
                 THEN /\ sy.exit = 1 /\ sy.processed = <<>>
                      /\ (keys = <<>> \/ ~sy.dryRun)
                 ELSE /\ sy.processed = keys
                      /\ sy.success + sy.failed = Len(keys)
                      /\ sy.exit = (IF sy.failed > 0 THEN 1 ELSE 0)

\* a batch run over two targets ended: the first target's bundle could not be
\* built, the second one was synced
C4_Witness ==
    /\ BatchRun /\ sy.pc = "exited" /\ Len(sy.processed) = 2
    /\ LoadedConfig.targets[sy.processed[1]].sync[1].include # None
    /\ LoadedConfig.targets[sy.processed[2]].sync[1].include = None
    /\ sy.failed = 1 /\ sy.success = 1 /\ sy.exit = 1

\* the run has resolved its targets from a configuration the schema accepts
TargetsResolved == HasValidConfig /\ sy.i >= 1

\* the object a target declares for a field of its sync specification, and the
\* object the declared defaults hold for it (the empty object when undeclared)
TargetLayer(name, field) ==
    LET sync == LoadedConfig.targets[name].sync
    IN  IF sync = None THEN <<>>
        ELSE IF sync[1][field] = None THEN <<>> ELSE sync[1][field][1]
DefaultsLayer(field) ==
    LET defaults == LoadedConfig.defaults
    IN  IF defaults = None THEN <<>>
        ELSE IF defaults[1].sync = None THEN <<>>
        ELSE IF defaults[1].sync[1][field] = None THEN <<>>
        ELSE defaults[1].sync[1][field][1]

\* the resolved object holds, for every key of the three layers, the value of
\* the topmost layer that declares the key, and holds nothing else
Layered(obj, top, middle, builtIn, absent) ==
    \A key \in DOMAIN obj \cup DOMAIN top \cup DOMAIN middle \cup DOMAIN builtIn :
        IF key \in DOMAIN top THEN key \in DOMAIN obj /\ obj[key] = top[key]
        ELSE IF key \in DOMAIN middle THEN key \in DOMAIN obj /\ obj[key] = middle[key]
        ELSE IF key \in DOMAIN builtIn THEN key \in DOMAIN obj /\ obj[key] = builtIn[key]
        ELSE key \in DOMAIN obj => obj[key] = absent

\* C15: in resolveTarget, for every key of sync.auth and of sync.config the
\* resolved value is the target override's value when the target declares the
\* key, otherwise the declared defaults' value when declared, otherwise the
\* built-in default; a key declared in one layer only is not erased by another
\* layer that declares other keys of the same object.
C15_ResolutionLayering ==
    TargetsResolved =>
        \A n \in DOMAIN sy.targets :
            LET target == sy.targets[n]
            IN  /\ Layered(target.sync.auth, TargetLayer(target.name, "auth"),
                           DefaultsLayer("auth"), DEFAULTS.sync.auth, FALSE)
                /\ DOMAIN target.sync.auth =
                       DOMAIN TargetLayer(target.name, "auth")
                       \cup DOMAIN DefaultsLayer("auth") \cup DOMAIN DEFAULTS.sync.auth
                /\ Layered(target.sync.config, TargetLayer(target.name, "config"),
                           DefaultsLayer("config"), DEFAULTS.sync.config, Undefined)

\* defaults {auth: {auth: false}} and a target {auth: {credentials: true}}
\* resolve to an auth holding both, next to the built-in antigravity-accounts
C15_Witness ==
    /\ TargetsResolved
    /\ DefaultsLayer("auth") = [auth |-> FALSE]
    /\ TargetLayer(<<"p">>, "auth") = [credentials |-> TRUE]
    /\ Len(sy.targets) = 1
    /\ sy.targets[1].sync.auth =
           ("antigravity-accounts" :> TRUE) @@ [auth |-> FALSE, credentials |-> TRUE]

\* the step of the loop that follows a createBundle that returned
BundleHandedOver == sy.pc = "bundle" /\ cb.pc = "returned" /\ sy'.pc = "loop"

\* C21: with --dry-run the sync command invokes no gh command for any target
\* (no authentication check, no repository check, no environment lookup or
\* creation, no secret write), and every target whose bundle was created is
\* counted as a success.
C21_DryRunNeverSyncs ==
    /\ [](sy.dryRun => (sy.ghUsed = {} /\ sy.calls = <<>>))
    /\ [][(sy.dryRun /\ BundleHandedOver)
              => (sy'.success = sy.success + 1 /\ sy'.failed = sy.failed)]_vars

\* a dry run over two targets ended: one bundle was created and counted as a
\* success, the other could not be built, and no gh command was run
C21_Witness ==
    /\ sy.dryRun /\ sy.pc = "exited" /\ Len(sy.processed) = 2
    /\ sy.success = 1 /\ sy.failed = 1
    /\ sy.ghUsed = {}

\* the sync command has called findConfigFile
ConfigSearched == sy.pc # "idle"

\* the --config argument names a path (the empty string names none)
ExplicitGiven == sy.config # None /\ sy.config[1] # <<>>

\* the per-project and the global locations, each in priority order
ProjectLocations == SubSeq(getConfigSearchPaths, 1, 6)
GlobalLocations == SubSeq(getConfigSearchPaths, 7, 12)
SomeExists(paths) == \E n \in DOMAIN paths : existsSync(fs, paths[n])
IsFirstExisting(path, paths) ==
    \E n \in DOMAIN paths :
        /\ paths[n] = path /\ existsSync(fs, path)
        /\ \A m \in 1..(n - 1) : ~existsSync(fs, paths[m])

Transported == sy.result # None /\ ~sy.dryRun

CallAt(n) == sy.calls[n]
Attempted(command) == \E n \in DOMAIN sy.calls : CallAt(n) = command
Succeeded(command) == \E n \in DOMAIN sy.calls : CallAt(n) = command /\ sy.exits[n]
StepOf(command) ==
    IF command = "auth status" THEN "checkGhCli"
    ELSE IF command = "repo view" THEN "checkRepoAccess"
    ELSE IF command = "secret set" THEN "setEnvironmentSecret"
    ELSE "ensureEnvironment"
StepRank(command) ==
    IF command = "auth status" THEN 1
    ELSE IF command = "repo view" THEN 2
    ELSE IF command = "api environment" THEN 3
    ELSE IF command = "api put environment" THEN 4
    ELSE 5

\* C26: in a non-dry-run syncToGitHub for one target the steps run in the
\* order gh authentication check, repository access check, environment
\* lookup (with creation only when the lookup fails), secret write; each is
\* attempted at most once; the first failing step ends the sync with ok=false
\* and its diagnostic; the secret is written only after all preceding steps
\* succeeded.
C26_TransportOrder ==
    Transported =>
        /\ sy.calls # <<>> /\ CallAt(1) = "auth status"
        /\ \A m, n \in DOMAIN sy.calls : m < n => StepRank(CallAt(m)) < StepRank(CallAt(n))
        /\ Attempted("repo view") => Succeeded("auth status")
        /\ Attempted("api environment") => Succeeded("repo view")
        /\ Attempted("api put environment") <=>
               (Attempted("api environment") /\ ~Succeeded("api environment"))
        /\ Attempted("secret set") <=>
               /\ Succeeded("auth status") /\ Succeeded("repo view")
               /\ Succeeded("api environment") \/ Succeeded("api put environment")
        /\ \A n \in DOMAIN sy.calls :
               (~sy.exits[n] /\ CallAt(n) # "api environment") =>
                   /\ n = Len(sy.calls)
                   /\ sy.result[1] = [ok |-> FALSE, error |-> StepOf(CallAt(n))]
        /\ sy.result[1].ok <=> Succeeded("secret set")
        /\ sy.result[1].ok => sy.result[1].error = "none"

\* the environment was missing and created, and the secret was written
C26_Witness ==
    /\ Transported
    /\ sy.calls = <<"auth status", "repo view", "api environment",
                    "api put environment", "secret set">>
    /\ sy.result[1].ok

(***************************************************************************)
(* SpecScratch: processes that run createBundle or restoreBundle at the    *)
(* same time on one machine. Each takes the name of its scratch directory  *)
(* from Date.now(), fills it, reads it back and removes it.                *)
(***************************************************************************)
MaxRuns == 2
Runs == 1..MaxRuns
RunKinds == {"createBundle", "restoreBundle"}

RunIdle(kind) == [pc |-> "idle", kind |-> kind, dir |-> <<>>, saw |-> <<>>]

\* the manifest a run puts into its scratch directory: its own
ManifestOf(p) == [t |-> "manifest", v |-> p]

\* join(tmpdir(), `opencode-sync-${Date.now()}`) or
\* join(tmpdir(), `opencode-restore-${Date.now()}`)
scratchDirAt(kind, t) ==
    IF kind = "createBundle" THEN bundleDirAt(t) ELSE restoreDirAt(t)

ScratchInit ==
    /\ MergeUnused /\ SyncUnused
    /\ resolved = NoTarget /\ cb = CbIdle /\ payload = NoPayload /\ rs = RsIdle
    /\ fs = [files |-> <<>>, dirs |-> {}]
    /\ now = 0
    /\ runs \in [Runs -> {RunIdle(kind) : kind \in RunKinds}]

\* mkdirSync(bundleDir) in createBundleDirectory, mkdirSync(tmpDir) in restoreBundle
RunMakesScratch(p) ==
    /\ runs[p].pc = "idle"
    /\ LET dir == scratchDirAt(runs[p].kind, now)
       IN  /\ fs' = mkdirSync(fs, dir)
           /\ runs' = [runs EXCEPT ![p].pc = "made", ![p].dir = dir]
    /\ UNCHANGED now

\* createBundleDirectory writes manifest.json; restoreBundle has tar extract it
RunFillsScratch(p) ==
    /\ runs[p].pc = "made"
    /\ fs' = WriteFile(fs, join(runs[p].dir, <<"manifest.json">>), ManifestOf(p))
    /\ runs' = [runs EXCEPT ![p].pc = "filled"]
    /\ UNCHANGED now

\* createTarball archives the directory; restoreBundle reads manifest.json
RunReadsScratch(p) ==
    /\ runs[p].pc = "filled"
    /\ LET manifestPath == join(runs[p].dir, <<"manifest.json">>)
       IN  runs' = [runs EXCEPT ![p].pc = "read",
                                ![p].saw = IF IsFile(fs, manifestPath)
                                           THEN Some(fs.files[manifestPath]) ELSE None]
    /\ UNCHANGED <<fs, now>>

\* finally { rmSync(dir, { recursive: true, force: true }) }
RunRemovesScratch(p) ==
    /\ runs[p].pc = "read"
    /\ fs' = rmSync(fs, runs[p].dir)
    /\ runs' = [runs EXCEPT ![p].pc = "done"]
    /\ UNCHANGED now

\* the wall clock moves on by a millisecond
MillisecondPasses ==
    /\ now < MaxClock
    /\ now' = now + 1
    /\ UNCHANGED <<fs, runs>>

ScratchNext ==
    \/ (\E p \in Runs : RunMakesScratch(p))
            /\ UNCHANGED <<mergeVars, syncVars, resolved, cb, payload, rs>>
    \/ (\E p \in Runs : RunFillsScratch(p))
            /\ UNCHANGED <<mergeVars, syncVars, resolved, cb, payload, rs>>
    \/ (\E p \in Runs : RunReadsScratch(p))
            /\ UNCHANGED <<mergeVars, syncVars, resolved, cb, payload, rs>>
    \/ (\E p \in Runs : RunRemovesScratch(p))
            /\ UNCHANGED <<mergeVars, syncVars, resolved, cb, payload, rs>>
    \/ MillisecondPasses
            /\ UNCHANGED <<mergeVars, syncVars, resolved, cb, payload, rs>>

SpecScratch == ScratchInit /\ [][ScratchNext]_vars

RunActive(p) == runs[p].pc \in {"made", "filled", "read"}

\* C25: each bundle-build run and each restore run owns its scratch
\* directory: two runs that overlap in time never use the same directory, a
\* run that filled its directory still has its own manifest there, and the
\* manifest a run reads back is its own.
C25_ScratchOwned ==
    /\ \A p, q \in Runs :
           (p # q /\ RunActive(p) /\ RunActive(q)) => runs[p].dir # runs[q].dir
    /\ \A p \in Runs :
           runs[p].pc = "filled" =>
               LET manifestPath == join(runs[p].dir, <<"manifest.json">>)
               IN  IsFile(fs, manifestPath) /\ fs.files[manifestPath] = ManifestOf(p)
    /\ \A p \in Runs :
           runs[p].pc \in {"read", "done"} => runs[p].saw = Some(ManifestOf(p))
====
